---- MODULE Spec2Model ----
(***************************************************************************)
(* Session store (utils/session_manager.py) and chat endpoint              *)
(* (api/routes.py) of the Marketplace-Agent backend.                       *)
(*                                                                         *)
(* The Redis store is a mapping from session id to a JSON document with a  *)
(* remaining lifetime.  Every store command of a handler may raise; which  *)
(* commands raise during one call is an input of the call (its fault       *)
(* plan).  Python exceptions are modelled as outcomes with exc = TRUE and  *)
(* every try/except of the source as an explicit handler.                  *)
(***************************************************************************)
EXTENDS Integers, Sequences, FiniteSets, TLC

\* ---------------------------------------------------------------- constants

\* session_manager.py:202  max_history = 50
max_history == 50
\* config.py:31  SESSION_EXPIRE_SECONDS = 86400
SESSION_EXPIRE_SECONDS == 86400
\* the falsy session id ("" or None), rejected by "if not session_id"
NoId == 0

\* ------------------------------------------------------------------- bounds

\* session-manager calls in one behaviour of Spec
MaxCalls == 3
\* session ids create_session can hand out (uuid4 values)
MaxSessions == 1
\* clock steps of half a TTL each
MaxTicks == 2

\* an id a client made up: never returned by create_session
ClientId == MaxSessions + 1
Uuids == 1..MaxSessions
Keys == Uuids \cup {ClientId}
TickSeconds == SESSION_EXPIRE_SECONDS \div 2

\* ------------------------------------------------------------ python values

\* Optional[T]: None is the empty tuple, a value x is <<x>>
None == << >>
Some(x) == <<x>>
IsNone(o) == o = << >>
\* {}: the dict with no keys
EmptyDict == [k \in {} |-> 0]
\* dict.update
DictUpdate(d, e) == [k \in DOMAIN d \cup DOMAIN e |-> IF k \in DOMAIN e THEN e[k] ELSE d[k]]
\* d[k] = v on a dict (adds the key when missing)
DictSet(d, k, v) == [x \in DOMAIN d \cup {k} |-> IF x = k THEN v ELSE d[x]]
\* lst[-n:]
LastN(s, n) == IF Len(s) <= n THEN s ELSE SubSeq(s, Len(s) - n + 1, Len(s))

\* json.dumps / json.loads of a session dict: the document carries the dict's
\* keys and values; a message's role (a str, or a str-valued enum member) is
\* written as its string value.
json_dumps(session) == [json |-> session]
json_loads(doc) == doc.json

\* a message dict; content is the identity of its text
Message(role, content) == [role |-> role, content |-> content]
\* k messages with fresh texts n, n+1, ...
Batch(n, k, role) == [i \in 1..k |-> Message(role, n + i - 1)]

\* ---------------------------------------------------------------- the store

\* redis.get(key): the stored document, or None
StoreGet(st, id) == IF id \in DOMAIN st THEN Some(st[id].value) ELSE None
\* redis.set(key, doc, ex=seconds)
StoreSet(st, id, doc, ex) ==
    [k \in DOMAIN st \cup {id} |-> IF k = id THEN [value |-> doc, ttl |-> ex] ELSE st[k]]
\* redis.delete(key): the store without the key
StoreDelete(st, id) == [k \in DOMAIN st \ {id} |-> st[k]]
\* keys whose lifetime has run out are dropped by the store
StoreExpire(st, dt) ==
    [k \in {x \in DOMAIN st : st[x].ttl > dt} |-> [st[k] EXCEPT !.ttl = @ - dt]]

\* outcome of a call: the store it leaves, its return value, whether it raised
Outcome(st, v) == [store |-> st, val |-> v, exc |-> FALSE]
Raised(st) == [store |-> st, val |-> None, exc |-> TRUE]
\* try: ... except Exception: log, fall through to the fallback return
Caught(o, fallback) == IF o.exc THEN Outcome(o.store, fallback) ELSE o

\* ---------------------------------------------------------- SessionManager

\* create_session: the store write (line 59) raises when "write" is in F
create_session_try(st, sid, t, F) ==
    LET session_data == [created_at |-> t, updated_at |-> t,
                         data |-> EmptyDict, chat_history |-> << >>]
    IN IF "write" \in F THEN Raised(st)
       ELSE Outcome(StoreSet(st, sid, json_dumps(session_data), SESSION_EXPIRE_SECONDS), sid)

\* mutant: the store write is outside any try
create_session_uncaught(st, rd, sid, t, F) ==
    IF rd THEN create_session_try(st, sid, t, F)
    ELSE Outcome(st, sid)

create_session(st, rd, sid, t, F) ==
    IF rd THEN Caught(create_session_try(st, sid, t, F), sid)
    ELSE Outcome(st, sid)

\* mutant: a read that returns the session without writing it back
get_session_try_readonly(st, id, t, F) ==
    IF "get" \in F THEN Raised(st)
    ELSE LET session_data == StoreGet(st, id)
         IN IF IsNone(session_data) THEN Outcome(st, None)
            ELSE Outcome(st, Some(DictSet(json_loads(session_data[1]), "updated_at", t)))

\* get_session: GET (line 84) raises on "get", the write-back SET (line 89)
\* on "writeback"
get_session_try(st, id, t, F) ==
    IF "get" \in F THEN Raised(st)
    ELSE LET session_data == StoreGet(st, id)
         IN IF IsNone(session_data) THEN Outcome(st, None)
            ELSE LET session == DictSet(json_loads(session_data[1]), "updated_at", t)
                 IN IF "writeback" \in F THEN Raised(st)
                    ELSE Outcome(StoreSet(st, id, json_dumps(session), SESSION_EXPIRE_SECONDS),
                                 Some(session))

\* mutant: the store calls are outside any try
get_session_uncaught(st, rd, id, t, F) ==
    IF id = NoId THEN Outcome(st, None)
    ELSE IF rd THEN get_session_try(st, id, t, F)
    ELSE Outcome(st, None)

get_session(st, rd, id, t, F) ==
    IF id = NoId THEN Outcome(st, None)
    ELSE IF rd THEN Caught(get_session_try(st, id, t, F), None)
    ELSE Outcome(st, None)

\* get_chat_history
get_chat_history(st, rd, id, t, F) ==
    LET o == get_session(st, rd, id, t, F)
    IN IF o.exc THEN o
       ELSE IF ~IsNone(o.val) /\ "chat_history" \in DOMAIN o.val[1]
            THEN Outcome(o.store, o.val[1].chat_history)
            ELSE Outcome(o.store, << >>)

\* update_session: merges data into session["data"]; a session dict without the
\* "data" key raises KeyError inside the try (line 121)
update_session_try(st, rd, id, data, t, F) ==
    LET o == get_session(st, rd, id, t, F)
    IN IF o.exc THEN o
       ELSE IF IsNone(o.val) THEN Outcome(o.store, FALSE)
       ELSE IF "data" \notin DOMAIN o.val[1] THEN Raised(o.store)
       ELSE LET merged == DictSet(o.val[1], "data", DictUpdate(o.val[1].data, data))
                session == DictSet(merged, "updated_at", t)
            IN IF "write" \in F THEN Raised(o.store)
               ELSE Outcome(StoreSet(o.store, id, json_dumps(session), SESSION_EXPIRE_SECONDS),
                            TRUE)

update_session(st, rd, id, data, t, F) ==
    IF id = NoId \/ data = EmptyDict THEN Outcome(st, FALSE)
    ELSE IF rd THEN Caught(update_session_try(st, rd, id, data, t, F), FALSE)
    ELSE Outcome(st, FALSE)

\* delete_session: DEL (line 150) raises on "delete"; bool(number of keys removed)
delete_session_try(st, id, F) ==
    IF "delete" \in F THEN Raised(st)
    ELSE Outcome(StoreDelete(st, id), id \in DOMAIN st)

delete_session(st, rd, id, F) ==
    IF id = NoId THEN Outcome(st, FALSE)
    ELSE IF rd THEN Caught(delete_session_try(st, id, F), FALSE)
    ELSE Outcome(st, FALSE)

\* mutant: clear_session aliased to a delete of nothing (returns False, keeps
\* the record)
clear_session_keeps(st, rd, id, F) == Outcome(st, FALSE)

\* clear_session: alias of delete_session
clear_session(st, rd, id, F) == delete_session(st, rd, id, F)

\* mutant: a merge that skips a batch the history already ends with
ExtendOnce(history, messages) ==
    IF Len(history) >= Len(messages)
       /\ SubSeq(history, Len(history) - Len(messages) + 1, Len(history)) = messages
    THEN history ELSE history \o messages

\* session["chat_history"].extend(messages)
Extend(history, messages) == history \o messages

\* mutant: the slice keeps the oldest entries, [:max_history]
TruncateOldest(history) ==
    IF Len(history) <= max_history THEN history ELSE SubSeq(history, 1, max_history)

\* session["chat_history"][-max_history:]
Truncate(history) == LastN(history, max_history)

\* the session dict update_chat_history writes, from the session it read
\* (None: no session) and the new messages (lines 188-205)
updated_history_session(read, messages, t) ==
    LET session0 == IF IsNone(read) THEN [chat_history |-> << >>] ELSE read[1]
        session1 == IF "chat_history" \notin DOMAIN session0
                    THEN DictSet(session0, "chat_history", << >>) ELSE session0
        session2 == DictSet(session1, "chat_history",
                            Truncate(Extend(session1.chat_history, messages)))
    IN DictSet(session2, "updated_at", t)

\* mutant: an update that refuses an id without a session instead of creating one
update_chat_history_try_existing(st, rd, id, messages, t, F) ==
    LET o == get_session(st, rd, id, t, F)
    IN IF o.exc THEN o
       ELSE IF IsNone(o.val) THEN Outcome(o.store, FALSE)
       ELSE IF "write" \in F THEN Raised(o.store)
       ELSE Outcome(StoreSet(o.store, id,
                             json_dumps(updated_history_session(o.val, messages, t)),
                             SESSION_EXPIRE_SECONDS),
                    TRUE)

\* update_chat_history: get_session (GET, write-back SET), then the final SET
\* (line 207), which raises on "write"
update_chat_history_try(st, rd, id, messages, t, F) ==
    LET o == get_session(st, rd, id, t, F)
    IN IF o.exc THEN o
       ELSE IF "write" \in F THEN Raised(o.store)
       ELSE Outcome(StoreSet(o.store, id,
                             json_dumps(updated_history_session(o.val, messages, t)),
                             SESSION_EXPIRE_SECONDS),
                    TRUE)

\* mutant: the final write is outside any try
update_chat_history_uncaught(st, rd, id, messages, t, F) ==
    IF id = NoId \/ messages = << >> THEN Outcome(st, FALSE)
    ELSE IF rd THEN update_chat_history_try(st, rd, id, messages, t, F)
    ELSE Outcome(st, FALSE)

update_chat_history(st, rd, id, messages, t, F) ==
    IF id = NoId \/ messages = << >> THEN Outcome(st, FALSE)
    ELSE IF rd THEN Caught(update_chat_history_try(st, rd, id, messages, t, F), FALSE)
    ELSE Outcome(st, FALSE)

\* clear_chat_history: update_chat_history with no messages
clear_chat_history(st, rd, id, t, F) == update_chat_history(st, rd, id, << >>, t, F)

\* the chat_history persisted for a session id (<< >> when there is no record)
Persisted(st, id) ==
    IF id \in DOMAIN st /\ "chat_history" \in DOMAIN json_loads(st[id].value)
    THEN json_loads(st[id].value).chat_history ELSE << >>

\* ------------------------------------------------------------------ agent

\* msg.get("content", "") of a message without text
EmptyText == 0
\* "I didn't receive any user message to process."
NoInputText == -1
\* "I encountered an error while processing your request: ..."
ErrorText == -2

\* pydantic Message.dict(): the optional fields appear with value None
dict_of(msg) ==
    [role |-> msg.role, content |-> msg.content,
     name |-> None, tool_calls |-> None, tool_call_id |-> None]

\* get_agent: the instance is built on first use; building it may raise, and
\* then nothing is stored
get_agent(built, construct_ok) ==
    IF built THEN [exc |-> FALSE, built |-> TRUE]
    ELSE IF construct_ok THEN [exc |-> FALSE, built |-> TRUE]
    ELSE [exc |-> TRUE, built |-> FALSE]

\* HumanMessage / AIMessage / SystemMessage made from a message dict (lines
\* 179-185)
LangChainMessage(m) ==
    [type |-> CASE m.role = "user" -> "human"
                [] m.role = "assistant" -> "ai"
                [] m.role = "system" -> "system"
                [] OTHER -> m.role,
     content |-> m.content]

\* an intermediate step of the agent executor: (AgentAction, observation)
Step(tool, tool_input, observation) ==
    <<[tool |-> tool, tool_input |-> tool_input], observation>>

\* lines 205-214: one entry per intermediate step, in the order of the steps
tool_calls_of(steps) ==
    [i \in 1..Len(steps) |->
        [tool_name |-> steps[i][1].tool, tool_input |-> steps[i][1].tool_input,
         result |-> steps[i][2]]]

\* mutant: without a user message the model is invoked on an empty input
arun_try_always(messages, model) ==
    LET Kept(m) == m.role \in {"user", "assistant", "system"}
        IsUser(m) == m.role = "user"
        users == SelectSeq(messages, IsUser)
        kept == SelectSeq(messages, Kept)
        call == Some([input |-> IF users = << >> THEN EmptyText
                                ELSE users[Len(users)].content,
                      chat_history |-> [i \in 1..(Len(kept) - 1) |-> LangChainMessage(kept[i])]])
    IN IF model.kind = "raises" THEN [exc |-> TRUE, invoked |-> call, val |-> None]
       ELSE [exc |-> FALSE, invoked |-> call,
             val |-> [message |-> Message("assistant", model.output),
                      tool_calls |-> IF model.steps = << >> THEN None
                                     ELSE Some(tool_calls_of(model.steps))]]

\* the body of arun's try: model is what agent_executor.ainvoke does
\* ([kind |-> "ok", output, steps] or [kind |-> "raises"])
arun_try(messages, model) ==
    LET IsUser(m) == m.role = "user"
        Kept(m) == m.role \in {"user", "assistant", "system"}
        users == SelectSeq(messages, IsUser)
        last_user_message == IF users = << >> THEN None ELSE Some(users[Len(users)].content)
        kept == SelectSeq(messages, Kept)
        chat_history == [i \in 1..Len(kept) |-> LangChainMessage(kept[i])]
        context == IF Len(chat_history) > 1
                   THEN SubSeq(chat_history, 1, Len(chat_history) - 1) ELSE << >>
    IN IF IsNone(last_user_message) \/ last_user_message[1] = EmptyText
       THEN [exc |-> FALSE, invoked |-> None,
             val |-> [message |-> Message("assistant", NoInputText), tool_calls |-> None]]
       ELSE LET call == Some([input |-> last_user_message[1], chat_history |-> context])
            IN IF model.kind = "raises"
               THEN [exc |-> TRUE, invoked |-> call, val |-> None]
               ELSE [exc |-> FALSE, invoked |-> call,
                     val |-> [message |-> Message("assistant", model.output),
                              tool_calls |-> IF tool_calls_of(model.steps) = << >> THEN None
                                             ELSE Some(tool_calls_of(model.steps))]]

\* mutant: arun without its except clause
arun_uncaught(messages, model) == arun_try(messages, model)

\* arun: any exception becomes an assistant message describing the error
arun(messages, model) ==
    LET r == arun_try(messages, model)
    IN IF r.exc
       THEN [exc |-> FALSE, invoked |-> r.invoked,
             val |-> [message |-> Message("assistant", ErrorText), tool_calls |-> None]]
       ELSE r

\* ------------------------------------------------------------- POST /chat

\* the handler's result: HTTP status, response body, and what it did on the way
ChatResult(st, status, session_id, new_msgs, response, built) ==
    [store |-> st, status |-> status, session_id |-> session_id, new_msgs |-> new_msgs,
     built |-> built,
     body |-> IF status = 200
              THEN Some([message |-> response.message, session_id |-> session_id,
                         tool_calls |-> response.tool_calls])
              ELSE None]

\* chat: request = [session_id, messages]; plan gives the fault plans of the
\* create, the history read and the history write; any exception inside the
\* try becomes HTTP 500 (lines 59-61)
chat(st, rd, built, request, sid_new, t, plan, construct_ok, model) ==
    LET c == IF request.session_id = NoId
             THEN create_session(st, rd, sid_new, t, plan.create)
             ELSE Outcome(st, request.session_id)
        session_id == c.val
        g == get_chat_history(c.store, rd, session_id, t, plan.read)
        new_msgs == [i \in 1..Len(request.messages) |-> dict_of(request.messages[i])]
        chat_history1 == g.val \o new_msgs
        a == get_agent(built, construct_ok)
        response == arun(chat_history1, model)
        chat_history2 == Append(chat_history1, response.val.message)
        u == update_chat_history(g.store, rd, session_id, chat_history2, t, plan.write)
    IN IF c.exc THEN ChatResult(c.store, 500, NoId, << >>, None, built)
       ELSE IF g.exc THEN ChatResult(g.store, 500, session_id, << >>, None, built)
       ELSE IF a.exc THEN ChatResult(g.store, 500, session_id, new_msgs, None, a.built)
       ELSE IF response.exc THEN ChatResult(g.store, 500, session_id, new_msgs, None, a.built)
       ELSE IF u.exc THEN ChatResult(u.store, 500, session_id, new_msgs, None, a.built)
       ELSE ChatResult(u.store, 200, session_id, new_msgs, response.val, a.built)

VARIABLES
    redis,      \* self.redis is a connection (FALSE: None, line 37)
    store,      \* the Redis keyspace: session id -> [value, ttl]
    now,        \* the clock, in seconds
    nextId,     \* the next uuid4
    nextText,   \* the next fresh message text
    calls,      \* calls made so far
    ret,        \* the last call: what was asked and what came back
    prev,       \* the call before it
    idle,       \* per id: seconds since it was last created, read or written
                \* with success (NotLive: never, or cleared since)
    appended,   \* per id: every message handed to update_chat_history, in order
    agent_instance, \* _agent_instance is a MultiAgent (FALSE: None)
    session_manager, \* SpecSingleton: _session_manager (0: None, else the request
                \* whose call constructed the instance)
    procs,      \* SpecRace: the calls in flight, each at its next store command
    lastWriter  \* SpecRace: the call whose final write reached the store last

vars == <<redis, store, now, nextId, nextText, calls, ret, prev, idle, appended,
          agent_instance, session_manager, procs, lastWriter>>

NotLive == 0 - 1

\* the record of one call: op, its arguments, the fault plan, the store entry of
\* the id before the call, and the outcome
CallRecord(op, id, arg, F, o) ==
    [op |-> op, id |-> id, arg |-> arg, faults |-> F,
     pre |-> IF id \in DOMAIN store THEN Some(store[id]) ELSE None,
     pre_history |-> Persisted(store, id),
     val |-> Some(o.val), exc |-> o.exc]

NoCall ==
    [op |-> "none", id |-> NoId, arg |-> << >>, faults |-> {}, pre |-> None,
     pre_history |-> << >>, val |-> None, exc |-> FALSE]

\* every store command raises: the store is unreachable
Unreachable == {"get", "writeback", "write", "delete"}
ReadFaults == {{}, {"get"}, {"writeback"}, Unreachable}
WriteFaults == {{}, {"get"}, {"writeback"}, {"write"}, Unreachable}
CreateFaults == {{}, Unreachable}
DeleteFaults == {{}, Unreachable}
\* batch lengths of the calls of Spec
SpecLens == {1, 2}
\* the one auxiliary data dict update_session is called with
SomeData == [k \in {"k"} |-> 1]

Init ==
    /\ redis \in BOOLEAN
    /\ store = EmptyDict
    /\ now = 0
    /\ nextId = 1
    /\ nextText = 1
    /\ calls = 0
    /\ ret = NoCall
    /\ prev = NoCall
    /\ idle = [k \in Keys |-> NotLive]
    /\ appended = [k \in Keys |-> << >>]
    /\ agent_instance = FALSE
    /\ session_manager = 0
    /\ procs = << >>
    /\ lastWriter = 0

\* bookkeeping shared by the calls: the call is recorded and counted (the
\* specifications bound the count)
Called(rec, o) ==
    /\ store' = o.store
    /\ prev' = ret
    /\ ret' = rec
    /\ calls' = calls + 1
    /\ UNCHANGED <<redis, now, agent_instance, session_manager, procs, lastWriter>>

Touch(id, yes) == idle' = IF yes /\ id \in Keys THEN [idle EXCEPT ![id] = 0] ELSE idle

Call_create_session(F) ==
    /\ nextId <= MaxSessions
    /\ LET o == create_session(store, redis, nextId, now, F)
       IN /\ Called(CallRecord("create_session", nextId, << >>, F, o), o)
          /\ Touch(nextId, redis /\ "write" \notin F)
    /\ nextId' = nextId + 1
    /\ UNCHANGED <<nextText, appended>>

Call_get_chat_history(id, F) ==
    /\ LET o == get_chat_history(store, redis, id, now, F)
           read == get_session(store, redis, id, now, F)
       IN /\ Called(CallRecord("get_chat_history", id, << >>, F, o), o)
          /\ Touch(id, ~IsNone(read.val))
    /\ UNCHANGED <<nextId, nextText, appended>>

Call_update_chat_history(id, messages, F) ==
    /\ LET o == update_chat_history(store, redis, id, messages, now, F)
           read == get_session(store, redis, id, now, F)
       IN /\ Called(CallRecord("update_chat_history", id, messages, F, o), o)
          /\ Touch(id, o.val \/ (messages # << >> /\ ~IsNone(read.val)))
    /\ nextText' = IF messages = << >> THEN nextText
                   ELSE IF messages[Len(messages)].content >= nextText
                        THEN messages[Len(messages)].content + 1 ELSE nextText
    /\ appended' = IF id \in Keys THEN [appended EXCEPT ![id] = @ \o messages] ELSE appended
    /\ UNCHANGED nextId

Call_update_session(id, data, F) ==
    /\ LET o == update_session(store, redis, id, data, now, F)
           read == get_session(store, redis, id, now, F)
       IN /\ Called(CallRecord("update_session", id, << >>, F, o), o)
          /\ Touch(id, o.val \/ ~IsNone(read.val))
    /\ UNCHANGED <<nextId, nextText, appended>>

Call_clear_session(id, F) ==
    /\ LET o == clear_session(store, redis, id, F)
       IN /\ Called(CallRecord("clear_session", id, << >>, F, o), o)
          /\ idle' = IF o.val THEN [idle EXCEPT ![id] = NotLive] ELSE idle
    /\ UNCHANGED <<nextId, nextText, appended>>

\* clear_chat_history returns at line 183 of update_chat_history, before any
\* store command: no lifetime is renewed
Call_clear_chat_history(id, F) ==
    /\ LET o == clear_chat_history(store, redis, id, now, F)
       IN /\ Called(CallRecord("clear_chat_history", id, << >>, F, o), o)
          /\ Touch(id, FALSE)
    /\ UNCHANGED <<nextId, nextText, appended>>

\* half a TTL passes; the store drops the keys whose lifetime ran out
Tick ==
    /\ now < MaxTicks * TickSeconds
    /\ now' = now + TickSeconds
    /\ store' = StoreExpire(store, TickSeconds)
    /\ idle' = [k \in Keys |-> IF idle[k] = NotLive THEN NotLive ELSE idle[k] + TickSeconds]
    /\ prev' = ret
    /\ ret' = [NoCall EXCEPT !.op = "tick"]
    /\ UNCHANGED <<redis, nextId, nextText, calls, appended, agent_instance, session_manager,
                   procs, lastWriter>>

\* the ids a caller may pass: one it was given, one it made up, or none
KnownIds == (1..(nextId - 1)) \cup {ClientId}

\* Spec makes at most MaxCalls calls
Budget == calls < MaxCalls

Next ==
    \/ \E F \in CreateFaults : Budget /\ Call_create_session(F)
    \/ \E id \in KnownIds \cup {NoId}, F \in ReadFaults :
          Budget /\ Call_get_chat_history(id, F)
    \/ \E id \in KnownIds, k \in SpecLens, F \in WriteFaults :
          Budget /\ Call_update_chat_history(id, Batch(nextText, k, "user"), F)
    \/ \E id \in KnownIds, F \in WriteFaults :
          Budget /\ Call_update_session(id, SomeData, F)
    \/ \E id \in KnownIds, F \in DeleteFaults : Budget /\ Call_clear_session(id, F)
    \/ Tick

Spec == Init /\ [][Next]_vars

\* ------------------------------------------------------------------------
\* SpecAppend: a session is created and then only update_chat_history is
\* called on it, the store reachable and the calls less than a TTL apart.
\* A call appends a fresh batch or sends the previous batch again.

\* calls in one behaviour of SpecAppend
MaxAppends == 5
\* batch lengths: short ones, and ones that cross max_history at once
AppendLens == {1, 2, max_history - 1, max_history + 1}

InitAppend == Init /\ redis = TRUE

AppendFresh ==
    \E id \in 1..(nextId - 1), k \in AppendLens :
        Call_update_chat_history(id, Batch(nextText, k, "user"), {})

AppendAgain ==
    /\ ret.op = "update_chat_history"
    /\ Call_update_chat_history(ret.id, ret.arg, {})

NextAppend ==
    \/ calls < MaxAppends /\ Call_create_session({})
    \/ calls < MaxAppends /\ AppendFresh
    \/ calls < MaxAppends /\ AppendAgain

SpecAppend == InitAppend /\ [][NextAppend]_vars

\* C1: after every update_chat_history call on a session made by create_session,
\* the persisted chat_history has at most max_history entries and is the last
\* min(max_history, total) messages of all batches appended, in the order appended.
C1_HistoryIsLastAppended ==
    \A id \in 1..(nextId - 1) :
        /\ Len(Persisted(store, id)) <= max_history
        /\ Persisted(store, id) = LastN(appended[id], max_history)

\* C1 witness: a session that was appended to twice in a row and has lost its
\* oldest entries
C1_Witness ==
    /\ ret.op = "update_chat_history" /\ prev.op = "update_chat_history"
    /\ ret.id = prev.id /\ ret.arg # prev.arg
    /\ Len(ret.pre_history) > 0
    /\ Len(appended[ret.id]) > max_history
    /\ Len(Persisted(store, ret.id)) = max_history

\* two calls in a row on the same id with the same batch, both returning True
SameBatchTwice ==
    /\ ret.op = "update_chat_history" /\ prev.op = "update_chat_history"
    /\ ret.id = prev.id /\ ret.arg = prev.arg
    /\ ret.val = Some(TRUE) /\ prev.val = Some(TRUE)

\* C3 as stated: the second of two identical update_chat_history calls leaves the
\* history the first one left.
C3_Idempotent ==
    SameBatchTwice => Persisted(store, ret.id) = ret.pre_history

\* C3 amended: with the store reachable the second call appends the batch again:
\* the history is the last max_history entries of
\* (history before the first call) + batch + batch.
C3_AppendsTwice ==
    SameBatchTwice =>
        Persisted(store, ret.id) = LastN(prev.pre_history \o ret.arg \o ret.arg, max_history)

\* C3 witness: the same batch was sent twice onto a non-empty history
C3_Witness ==
    /\ SameBatchTwice
    /\ Len(prev.pre_history) > 0
    /\ Persisted(store, ret.id) # ret.pre_history


\* ------------------------------------------------------------------------
\* SpecChat: POST /chat requests, one after the other.

\* requests in one behaviour of SpecChat
MaxRequests == 2
\* request lengths: one message, and enough to fill a history at once
ChatLens == {1, max_history - 1}

NoFaults == [create |-> {}, read |-> {}, write |-> {}]
AllFail == [create |-> Unreachable, read |-> Unreachable, write |-> Unreachable]
WriteFails == [create |-> {}, read |-> {}, write |-> {"write"}]
ChatPlans == {NoFaults, AllFail, WriteFails}

\* the message lists a request may carry, with fresh texts from n on
ChatMessages(n) == {Batch(n, k, "user") : k \in ChatLens} \cup {Batch(n, 1, "system")}

\* what the language model does with the call
ModelOutcomes(n) ==
    {[kind |-> "ok", output |-> n, steps |-> << >>],
     [kind |-> "raises", output |-> EmptyText, steps |-> << >>]}

Call_chat(request, plan, construct_ok, model) ==
    /\ request.session_id = NoId => nextId <= MaxSessions
    /\ LET r == chat(store, redis, agent_instance, request, nextId, now, plan,
                     construct_ok, model)
           sid == IF request.session_id = NoId THEN nextId ELSE request.session_id
       IN /\ store' = r.store
          /\ agent_instance' = r.built
          /\ ret' = [op |-> "chat", id |-> sid, requested |-> request.session_id,
                     arg |-> r.new_msgs, faults |-> plan,
                     construct_ok |-> agent_instance \/ construct_ok,
                     pre |-> IF sid \in DOMAIN store THEN Some(store[sid]) ELSE None,
                     pre_history |-> Persisted(store, sid),
                     status |-> r.status, val |-> r.body, exc |-> FALSE]
    /\ prev' = ret
    /\ nextId' = IF request.session_id = NoId THEN nextId + 1 ELSE nextId
    /\ nextText' = nextText + Len(request.messages) + 1
    /\ calls' = calls + 1
    \* idle and appended follow direct session-manager calls only
    /\ UNCHANGED <<redis, now, idle, appended, session_manager, procs, lastWriter>>

NextChat ==
    \E id \in KnownIds \cup {NoId}, msgs \in ChatMessages(nextText), plan \in ChatPlans,
       construct_ok \in BOOLEAN :
        \E model \in ModelOutcomes(nextText + Len(msgs)) :
            /\ calls < MaxRequests
            /\ Call_chat([session_id |-> id, messages |-> msgs], plan, construct_ok, model)

SpecChat == Init /\ [][NextChat]_vars

\* ------------------------------------------------------------------------
\* SpecTools: POST /chat requests, the store reachable, whose agent run invokes
\* no tool, one tool, or two tools.

\* requests in one behaviour of SpecTools
MaxToolChats == 2

\* what the agent executor does with the call: an answer after no, one or two
\* tool invocations
ToolOutcomes(n) ==
    {[kind |-> "ok", output |-> n, steps |-> << >>],
     [kind |-> "ok", output |-> n, steps |-> <<Step("call_api", 1, 1)>>],
     [kind |-> "ok", output |-> n,
      steps |-> <<Step("analyze_github_repo", 2, 2), Step("call_api", 1, 1)>>]}

NextTools ==
    \E id \in KnownIds \cup {NoId}, msgs \in ChatMessages(nextText) :
        \E model \in ToolOutcomes(nextText + Len(msgs)) :
            /\ calls < MaxToolChats
            /\ Call_chat([session_id |-> id, messages |-> msgs], NoFaults, TRUE, model)

InitTools == Init /\ redis = TRUE

SpecTools == InitTools /\ [][NextTools]_vars

\* a POST /chat request that was answered with tool calls
AnsweredWithTools(r) == r.op = "chat" /\ r.status = 200 /\ ~IsNone(r.val[1].tool_calls)

\* C26 as stated: the tool-call entries of an agent run are attached to the
\* outgoing assistant message: the assistant message of the response, and the
\* one the chat endpoint persists as the last message of the history, carry
\* the entries the response reports.
C26_MessageCarriesToolCalls ==
    AnsweredWithTools(ret) =>
        LET h == Persisted(store, ret.id)
        IN /\ "tool_calls" \in DOMAIN ret.val[1].message
           /\ ret.val[1].message.tool_calls = ret.val[1].tool_calls
           /\ h # << >> /\ h[Len(h)].role = "assistant"
           /\ "tool_calls" \in DOMAIN h[Len(h)]
           /\ h[Len(h)].tool_calls = ret.val[1].tool_calls


\* ------------------------------------------------------------------------
\* SpecRace: update_chat_history calls on one session id in flight at the same
\* time, the store reachable.  A call is three store commands: the GET and the
\* write-back SET of get_session, then the final SET; the commands of
\* different calls interleave freely, each command is atomic in the store.

\* calls in flight
RaceCalls == 2
\* the session the calls are about
RaceId == CHOOSE id \in Uuids : TRUE
\* history lengths the session starts with, and batch lengths of the calls
RaceSeeds == {0, 1, max_history - 1, max_history}
RaceLens == {1, 2}

\* the store after create_session and one update_chat_history of n messages
SeedStore(n) ==
    LET c == create_session(EmptyDict, TRUE, RaceId, 0, {}).store
    IN IF n = 0 THEN c
       ELSE update_chat_history(c, TRUE, RaceId, Batch(1, n, "user"), 0, {}).store

\* the batch of call p: lens[p] fresh messages after those of the calls before
RaceBatch(first, lens, p) ==
    LET Before[q \in 0..Len(lens)] == IF q = 0 THEN 0 ELSE Before[q - 1] + lens[q]
    IN Batch(first + Before[p - 1], lens[p], "user")

InitRace ==
    /\ redis = TRUE
    /\ \E created \in BOOLEAN, n \in RaceSeeds, lens \in [1..RaceCalls -> RaceLens] :
          /\ created \/ n = 0
          /\ store = IF created THEN SeedStore(n) ELSE EmptyDict
          /\ nextText = n + 1
          /\ procs = [p \in 1..RaceCalls |->
                        [op |-> "update_chat_history", pc |-> "get", id |-> RaceId,
                         arg |-> RaceBatch(n + 1, lens, p), read |-> None,
                         val |-> None]]
    /\ now = 0
    /\ nextId = RaceId + 1
    /\ calls = 0
    /\ ret = NoCall
    /\ prev = NoCall
    /\ idle = [k \in Keys |-> NotLive]
    /\ appended = [k \in Keys |-> << >>]
    /\ agent_instance = FALSE
    /\ session_manager = 0
    /\ lastWriter = 0

raceFrame == <<redis, now, nextId, nextText, calls, ret, prev, idle, appended, agent_instance,
               session_manager>>

\* line 84: session_data = self.redis.get(...); lines 85-88 or line 188
RaceGet(p) ==
    /\ procs[p].pc = "get"
    /\ LET session_data == StoreGet(store, procs[p].id)
       IN procs' = [procs EXCEPT
               ![p].read = IF IsNone(session_data) THEN None
                           ELSE Some(DictSet(json_loads(session_data[1]), "updated_at", now)),
               ![p].pc = IF IsNone(session_data) THEN "write" ELSE "writeback"]
    /\ UNCHANGED <<store, lastWriter, raceFrame>>

\* line 89: the session that was read is written back with a full TTL
RaceWriteBack(p) ==
    /\ procs[p].pc = "writeback"
    /\ store' = StoreSet(store, procs[p].id, json_dumps(procs[p].read[1]),
                         SESSION_EXPIRE_SECONDS)
    /\ procs' = [procs EXCEPT ![p].pc = "write"]
    /\ UNCHANGED <<lastWriter, raceFrame>>

\* mutant: the final write appends to the history the store holds now
race_final_session_reread(st, id, read, messages, t) ==
    updated_history_session(
        IF id \in DOMAIN st THEN Some(json_loads(st[id].value)) ELSE None, messages, t)

\* lines 188-205: the session written is computed from the session read
race_final_session(st, id, read, messages, t) ==
    updated_history_session(read, messages, t)

\* line 207: the final SET; the call returns True
RaceWrite(p) ==
    /\ procs[p].pc = "write"
    /\ store' = StoreSet(store, procs[p].id,
                         json_dumps(race_final_session(store, procs[p].id, procs[p].read,
                                                       procs[p].arg, now)),
                         SESSION_EXPIRE_SECONDS)
    /\ procs' = [procs EXCEPT ![p].pc = "done", ![p].val = Some(TRUE)]
    /\ lastWriter' = p
    /\ UNCHANGED raceFrame

NextRace ==
    \/ \E p \in DOMAIN procs : RaceGet(p)
    \/ \E p \in DOMAIN procs : RaceWriteBack(p)
    \/ \E p \in DOMAIN procs : RaceWrite(p)

SpecRace == InitRace /\ [][NextRace]_vars

\* ------------------------------------------------------------------------
\* SpecRaceRead: reads of one session id (get_session, as get_chat_history
\* makes it: the GET, then the write-back SET) in flight at the same time as
\* one clear_session or one update_chat_history on the id, the store
\* reachable.  The store commands of the calls interleave freely, each command
\* is atomic in the store.

\* reads in flight
RaceReaders == 1

\* the calls in flight: the reads, then the clear or the update
ReadProcs(other, batch) ==
    [p \in 1..(RaceReaders + 1) |->
        IF p <= RaceReaders
        THEN [op |-> "get_chat_history", pc |-> "read_get", id |-> RaceId, arg |-> << >>,
              read |-> None, val |-> None]
        ELSE IF other = "clear_session"
        THEN [op |-> "clear_session", pc |-> "delete", id |-> RaceId, arg |-> << >>,
              read |-> None, val |-> None]
        ELSE [op |-> "update_chat_history", pc |-> "get", id |-> RaceId, arg |-> batch,
              read |-> None, val |-> None]]

InitRaceRead ==
    /\ redis = TRUE
    /\ \E n \in RaceSeeds, other \in {"clear_session", "update_chat_history"},
          k \in RaceLens :
          /\ other = "clear_session" => k = 1
          /\ store = SeedStore(n)
          /\ nextText = n + 1
          /\ procs = ReadProcs(other, Batch(n + 1, k, "user"))
    /\ now = 0
    /\ nextId = RaceId + 1
    /\ calls = 0
    /\ ret = NoCall
    /\ prev = NoCall
    /\ idle = [k \in Keys |-> NotLive]
    /\ appended = [k \in Keys |-> << >>]
    /\ agent_instance = FALSE
    /\ session_manager = 0
    /\ lastWriter = 0

\* line 84 of a read: the GET; without a record the read returns (line 98)
ReadGet(p) ==
    /\ procs[p].pc = "read_get"
    /\ LET session_data == StoreGet(store, procs[p].id)
       IN procs' = [procs EXCEPT
               ![p].read = IF IsNone(session_data) THEN None
                           ELSE Some(DictSet(json_loads(session_data[1]), "updated_at", now)),
               ![p].pc = IF IsNone(session_data) THEN "done" ELSE "read_writeback",
               ![p].val = IF IsNone(session_data) THEN Some(TRUE) ELSE None]
    /\ UNCHANGED <<store, lastWriter, raceFrame>>

\* line 89 of a read: the session that was read is written back with a full
\* TTL, and the read returns it (line 94)
ReadWriteBack(p) ==
    /\ procs[p].pc = "read_writeback"
    /\ store' = StoreSet(store, procs[p].id, json_dumps(procs[p].read[1]),
                         SESSION_EXPIRE_SECONDS)
    /\ procs' = [procs EXCEPT ![p].pc = "done", ![p].val = Some(TRUE)]
    /\ lastWriter' = p
    /\ UNCHANGED raceFrame

\* line 150: the DELETE of clear_session
RaceDelete(p) ==
    /\ procs[p].pc = "delete"
    /\ store' = StoreDelete(store, procs[p].id)
    /\ procs' = [procs EXCEPT ![p].pc = "done", ![p].val = Some(procs[p].id \in DOMAIN store)]
    /\ UNCHANGED <<lastWriter, raceFrame>>

NextRaceRead ==
    \/ \E p \in DOMAIN procs : ReadGet(p)
    \/ \E p \in DOMAIN procs : ReadWriteBack(p)
    \/ \E p \in DOMAIN procs : RaceDelete(p)
    \/ \E p \in DOMAIN procs : RaceGet(p)
    \/ \E p \in DOMAIN procs : RaceWriteBack(p)
    \/ \E p \in DOMAIN procs : RaceWrite(p)

SpecRaceRead == InitRaceRead /\ [][NextRaceRead]_vars

\* ------------------------------------------------------------------------
\* Claims checked under Spec

\* the store raised on a command the last call issued
ReadRaised(r) ==
    /\ redis /\ r.id # NoId
    /\ \/ "get" \in r.faults
       \/ "writeback" \in r.faults /\ ~IsNone(r.pre)

\* C4: get_chat_history returns the empty sequence and does not raise when the
\* id is empty, has no record (never created, expired, deleted), the store
\* handle is absent, or the store raises on the read or on the write-back.
C4_GetHistoryNeverFails ==
    ret.op = "get_chat_history" =>
        /\ ~ret.exc
        /\ (ret.id = NoId \/ IsNone(ret.pre) \/ ~redis \/ ReadRaised(ret))
              => ret.val = Some(<< >>)

\* C4 witness: a session that held messages has expired and is read with the
\* store reachable
C4_Witness ==
    /\ ret.op = "get_chat_history" /\ ret.faults = {} /\ redis
    /\ ret.id \in Keys
    /\ idle[ret.id] >= SESSION_EXPIRE_SECONDS
    /\ appended[ret.id] # << >>
    /\ ret.val = Some(<< >>)

\* the delete of the last-but-one call was issued and did not raise
Cleared(r) == r.op = "clear_session" /\ "delete" \notin r.faults

C7_SlidingExpiration ==
    \A id \in Keys :
        /\ id \in DOMAIN store <=>
              (idle[id] # NotLive /\ idle[id] < SESSION_EXPIRE_SECONDS)
        /\ id \in DOMAIN store =>
              store[id].ttl = SESSION_EXPIRE_SECONDS - idle[id]

\* C7 witness: a session created a full TTL ago is still stored, because it
\* was read in between
C7_Witness ==
    \E id \in DOMAIN store :
        /\ "created_at" \in DOMAIN json_loads(store[id].value)
        /\ now - json_loads(store[id].value).created_at >= SESSION_EXPIRE_SECONDS
        /\ store[id].ttl < SESSION_EXPIRE_SECONDS

\* the create's store write was issued and did not raise
CreateWritten(r) == r.op = "create_session" /\ redis /\ "write" \notin r.faults

\* C8: create_session returns a new, non-empty id and does not raise; when the
\* write succeeded the new session's history is empty; when it did not,
\* get_chat_history on the id right after returns the empty sequence.
C8_CreateNeverFails ==
    /\ ret.op = "create_session" =>
          /\ ~ret.exc
          /\ ret.val = Some(ret.id) /\ ret.id # NoId /\ IsNone(ret.pre)
          /\ CreateWritten(ret) =>
                (ret.id \in DOMAIN store /\ Persisted(store, ret.id) = << >>)
          /\ ~CreateWritten(ret) => ret.id \notin DOMAIN store
    /\ (prev.op = "create_session" /\ ~CreateWritten(prev)
           /\ ret.op = "get_chat_history" /\ ret.id = prev.id)
          => (ret.val = Some(<< >>) /\ ~ret.exc)

\* C8 witness: the store raised on the create's write, then answered the read
C8_Witness ==
    /\ prev.op = "create_session" /\ redis /\ "write" \in prev.faults
    /\ ret.op = "get_chat_history" /\ ret.id = prev.id /\ ret.faults = {}
    /\ ret.val = Some(<< >>)

\* the store raised on a command the last update_chat_history call issued
UpdateRaised(r) ==
    /\ r.op = "update_chat_history" /\ r.arg # << >>
    /\ \/ ReadRaised(r)
       \/ redis /\ r.id # NoId /\ "write" \in r.faults

\* C9 as stated: an update_chat_history call during which the store raised
\* does not raise, returns False and leaves the persisted history as it was.
C9_FailedUpdateIsNoOp ==
    UpdateRaised(ret) =>
        /\ ~ret.exc
        /\ ret.val = Some(FALSE)
        /\ Persisted(store, ret.id) = ret.pre_history

\* the session dict of a stored record
Record(st, id) == json_loads(st[id].value)

\* every stored record has the four fields of a session
FourFields ==
    \A id \in DOMAIN store :
        {"created_at", "updated_at", "data", "chat_history"} \subseteq DOMAIN Record(store, id)

\* a step keeps the created_at of every record that stays in the store
CreatedAtKept ==
    \A id \in DOMAIN store \cap DOMAIN store' :
        ("created_at" \in DOMAIN Record(store, id) /\ "created_at" \in DOMAIN Record(store', id))
            => Record(store', id).created_at = Record(store, id).created_at

\* C29 as stated: every record in the store, whichever operation wrote it, has
\* the fields created_at, updated_at, data and chat_history, and no operation
\* changes the created_at of a record.
C29_RecordsAreComplete == []FourFields /\ [][CreatedAtKept]_vars

\* ------------------------------------------------------------------------
\* Claims checked under SpecChat

\* a request served with the store reachable throughout
ServedReachable(r) ==
    r.op = "chat" /\ redis /\ r.faults = NoFaults /\ r.status = 200

\* C2 as stated: after a request served with the store reachable, the persisted
\* history is the history persisted before it, then the request's messages,
\* then the reply, cut to the last max_history entries.
C2_ChatAppendsOnce ==
    ServedReachable(ret) =>
        Persisted(store, ret.id)
            = LastN(ret.pre_history \o ret.arg \o <<ret.val[1].message>>, max_history)

\* C10: whatever the store does, the chat endpoint answers 500 only when
\* building the agent raised; otherwise it answers with an assistant message
\* and a session id.
C10_ChatSurvivesStoreFailure ==
    ret.op = "chat" =>
        /\ ret.status = 500 <=> ~ret.construct_ok
        /\ ret.status # 500 =>
              /\ ret.status = 200
              /\ ret.val[1].message.role = "assistant"
              /\ ret.val[1].session_id = ret.id /\ ret.id # NoId

\* C10 witness: a request without session id is answered although the create,
\* the history read and the history write all raised; nothing was persisted
C10_Witness ==
    /\ ret.op = "chat" /\ redis /\ ret.faults = AllFail /\ ret.requested = NoId
    /\ ret.status = 200
    /\ ret.val[1].message.role = "assistant"
    /\ ret.val[1].session_id = ret.id
    /\ ret.id \notin DOMAIN store

\* ------------------------------------------------------------------------
\* Claims checked under SpecRace

AllDone == procs # << >> /\ \A p \in DOMAIN procs : procs[p].pc = "done"

\* the chat_history of the session a call read (none: empty)
ReadHistory(c) ==
    IF ~IsNone(c.read) /\ "chat_history" \in DOMAIN c.read[1]
    THEN c.read[1].chat_history ELSE << >>

\* C6: the stored history never exceeds max_history entries, and once all the
\* interleaved calls have returned it is exactly what the call that wrote last
\* made of the history it had read: that history followed by its own batch,
\* cut to the last max_history entries.
C6_LastWriteWins ==
    /\ Len(Persisted(store, RaceId)) <= max_history
    /\ AllDone =>
          Persisted(store, RaceId)
              = LastN(ReadHistory(procs[lastWriter]) \o procs[lastWriter].arg, max_history)

\* C6 witness: both calls read a history one short of full before either wrote,
\* and the batch of the call that wrote first is lost
C6_Witness ==
    /\ AllDone
    /\ Len(Persisted(store, RaceId)) = max_history
    /\ \E p \in DOMAIN procs :
          /\ p # lastWriter
          /\ ReadHistory(procs[p]) = ReadHistory(procs[lastWriter])
          /\ Len(ReadHistory(procs[p])) = max_history - 1
          /\ \A i \in 1..Len(procs[p].arg), j \in 1..max_history :
                Persisted(store, RaceId)[j] # procs[p].arg[i]

\* ------------------------------------------------------------------------
\* SpecImplicit: session-manager calls with the store reachable, on ids that
\* were created, never created, cleared, or left to expire.

\* calls in one behaviour of SpecImplicit
MaxImplicit == 4
\* batch lengths: one message, exactly max_history, and more than max_history
ImplicitLens == {1, max_history, max_history + 1}

InitImplicit == Init /\ redis = TRUE

NextImplicit ==
    \/ calls < MaxImplicit /\ Call_create_session({})
    \/ \E id \in KnownIds, k \in ImplicitLens :
          calls < MaxImplicit /\ Call_update_chat_history(id, Batch(nextText, k, "user"), {})
    \/ \E id \in KnownIds : calls < MaxImplicit /\ Call_get_chat_history(id, {})
    \/ \E id \in KnownIds : calls < MaxImplicit /\ Call_clear_session(id, {})
    \/ Tick

SpecImplicit == InitImplicit /\ [][NextImplicit]_vars

\* an update_chat_history call with a non-empty id and batch on an id that had
\* no record in the store
OnMissing(r) ==
    r.op = "update_chat_history" /\ r.id # NoId /\ r.arg # << >> /\ IsNone(r.pre)

\* C11: with the store reachable, update_chat_history with a non-empty id and a
\* non-empty batch on an id without a persisted session (never created,
\* expired, or cleared) returns True and creates the record, whose history is
\* the last min(max_history, |msgs|) messages of the batch and nothing else; a
\* get_chat_history on the id right after returns exactly that.
C11_ImplicitCreate ==
    /\ OnMissing(ret) =>
          /\ ~ret.exc /\ ret.val = Some(TRUE)
          /\ ret.id \in DOMAIN store
          /\ Persisted(store, ret.id) = LastN(ret.arg, max_history)
    /\ (OnMissing(prev) /\ ret.op = "get_chat_history" /\ ret.id = prev.id) =>
          /\ ret.val = Some(LastN(prev.arg, max_history))
          /\ Len(ret.val[1]) = IF Len(prev.arg) < max_history THEN Len(prev.arg)
                                ELSE max_history

\* C11 witness: an id that had held other messages and lost its record (cleared
\* or expired) is updated with more than max_history messages and then read
C11_Witness ==
    /\ OnMissing(prev) /\ prev.val = Some(TRUE)
    /\ Len(prev.arg) > max_history
    /\ Len(appended[prev.id]) > Len(prev.arg)
    /\ ret.op = "get_chat_history" /\ ret.id = prev.id
    /\ Len(ret.val[1]) = max_history /\ ret.val[1][max_history] = prev.arg[Len(prev.arg)]

\* ------------------------------------------------------------------------
\* SpecClear: sessions are created, appended to, have their history cleared by
\* clear_chat_history and are read, with the store reachable.

\* calls in one behaviour of SpecClear
MaxClears == 4

NextClear ==
    \/ calls < MaxClears /\ Call_create_session({})
    \/ \E id \in KnownIds, k \in SpecLens :
          calls < MaxClears /\ Call_update_chat_history(id, Batch(nextText, k, "user"), {})
    \/ \E id \in KnownIds : calls < MaxClears /\ Call_clear_chat_history(id, {})
    \/ \E id \in KnownIds : calls < MaxClears /\ Call_get_chat_history(id, {})

SpecClear == InitImplicit /\ [][NextClear]_vars

\* a clear_chat_history call on an id that had a record in the store
ClearedExisting(r) == r.op = "clear_chat_history" /\ ~IsNone(r.pre)

\* C25 as stated: clear_chat_history on an existing session returns True and
\* leaves the record in the store with an empty chat history; a
\* get_chat_history on the id right after returns the empty sequence.
C25_ClearEmptiesHistory ==
    /\ ClearedExisting(ret) =>
          /\ ret.val = Some(TRUE)
          /\ ret.id \in DOMAIN store
          /\ Persisted(store, ret.id) = << >>
    /\ (ClearedExisting(prev) /\ ret.op = "get_chat_history" /\ ret.id = prev.id) =>
          ret.val = Some(<< >>)

\* ------------------------------------------------------------------------
\* str values whose characters matter (request texts, HTTP methods) are the
\* sequences of their characters

LowerCase == <<"a", "b", "c", "d", "e", "f", "g", "h", "i", "j", "k", "l", "m",
               "n", "o", "p", "q", "r", "s", "t", "u", "v", "w", "x", "y", "z">>
UpperCase == <<"A", "B", "C", "D", "E", "F", "G", "H", "I", "J", "K", "L", "M",
               "N", "O", "P", "Q", "R", "S", "T", "U", "V", "W", "X", "Y", "Z">>
Digits == {"0", "1", "2", "3", "4", "5", "6", "7", "8", "9"}

IndexIn(seq, c) == CHOOSE i \in DOMAIN seq : seq[i] = c
IsLower(c) == \E i \in DOMAIN LowerCase : LowerCase[i] = c
IsUpper(c) == \E i \in DOMAIN UpperCase : UpperCase[i] = c
\* str.upper / str.lower
str_upper(s) == [i \in 1..Len(s) |-> IF IsLower(s[i]) THEN UpperCase[IndexIn(LowerCase, s[i])]
                                     ELSE s[i]]
str_lower(s) == [i \in 1..Len(s) |-> IF IsUpper(s[i]) THEN LowerCase[IndexIn(UpperCase, s[i])]
                                     ELSE s[i]]

\* ------------------------------------------------------------ HTTP executor
\* (agents/tools/api_caller.py)

\* the values of the HTTPMethod enum
HTTPMethod ==
    {<<"G", "E", "T">>, <<"P", "O", "S", "T">>, <<"P", "U", "T">>,
     <<"D", "E", "L", "E", "T", "E">>, <<"P", "A", "T", "C", "H">>,
     <<"H", "E", "A", "D">>, <<"O", "P", "T", "I", "O", "N", "S">>}

\* a method argument: a str, a member of HTTPMethod, or None
MethodStr(s) == [type |-> "str", value |-> s]
MethodMember(s) == [type |-> "HTTPMethod", value |-> s]
MethodNone == [type |-> "NoneType", value |-> << >>]

\* a body argument: a dict or a str
PyDict(d) == [type |-> "dict", value |-> d]
PyStr(s) == [type |-> "str", value |-> [str |-> s]]

\* self.default_headers (lines 33-37)
default_headers ==
    [k \in {"User-Agent", "Accept", "Content-Type"} |->
        IF k = "User-Agent" THEN "MultiAgent-APICaller/1.0" ELSE "application/json"]

\* 'application/json' in value, on the content types of the model
ContainsJson(value) == value \in {"application/json", "application/json; charset=utf-8"}

\* base64.b64encode(...).decode of a text: an encoding that keeps the text
\* apart
b64encode(x) == <<"base64(">> \o x \o <<")">>
\* f"<scheme> <credentials>"
SchemeValue(scheme, x) == <<scheme, " ">> \o x

\* auth_config.get('type', '').lower(), on the type strings of the model
auth_type_of(auth_config) ==
    IF "type" \notin DOMAIN auth_config THEN ""
    ELSE CASE auth_config.type = "Basic" -> "basic"
           [] auth_config.type = "BEARER" -> "bearer"
           [] OTHER -> auth_config.type

\* mutant: an api_key for the Authorization header is sent as a Bearer token
prepare_auth_headers_bearer_key(auth_config) ==
    LET auth_type == auth_type_of(auth_config)
        has(k) == k \in DOMAIN auth_config
    IN IF auth_type = "basic" /\ has("username") /\ has("password")
       THEN [k \in {"Authorization"} |->
                SchemeValue("Basic",
                            b64encode(auth_config.username \o <<":">> \o auth_config.password))]
       ELSE IF auth_type \in {"bearer", "oauth2"} /\ has("token")
       THEN [k \in {"Authorization"} |-> SchemeValue("Bearer", auth_config.token)]
       ELSE IF auth_type = "api_key" /\ has("key") /\ has("value")
       THEN [k \in {auth_config.key} |->
                IF k = "Authorization" THEN SchemeValue("Bearer", auth_config.value)
                ELSE auth_config.value]
       ELSE EmptyDict

\* _prepare_auth_headers (lines 156-188)
prepare_auth_headers(auth_config) ==
    LET auth_type == auth_type_of(auth_config)
        has(k) == k \in DOMAIN auth_config
    IN IF auth_type = "basic" /\ has("username") /\ has("password")
       THEN [k \in {"Authorization"} |->
                SchemeValue("Basic",
                            b64encode(auth_config.username \o <<":">> \o auth_config.password))]
       ELSE IF auth_type = "bearer" /\ has("token")
       THEN [k \in {"Authorization"} |-> SchemeValue("Bearer", auth_config.token)]
       ELSE IF auth_type = "api_key" /\ has("key") /\ has("value")
       THEN [k \in {auth_config.key} |-> auth_config.value]
       ELSE IF auth_type = "oauth2" /\ has("token")
       THEN [k \in {"Authorization"} |-> SchemeValue("Bearer", auth_config.token)]
       ELSE EmptyDict

\* result of a call of the executor: the exception that left it ("" when it
\* returned), the value returned, and the requests handed to session.request
CallReturned(v, sent) == [exc |-> "", val |-> Some(v), dispatched |-> sent]
CallRaised(kind, sent) == [exc |-> kind, val |-> None, dispatched |-> sent]

\* lines 141-147 and 148-154: the two error envelopes
ClientErrorEnvelope(cause) ==
    [error |-> [text |-> "API request failed", cause |-> cause],
     status |-> 0, is_success |-> FALSE]
UnexpectedErrorEnvelope(cause) ==
    [error |-> [text |-> "Unexpected error", cause |-> cause],
     status |-> 0, is_success |-> FALSE]
ClientErrors == {"ClientConnectorError", "ClientPayloadError"}

\* self.ssl_context (lines 38-40): no hostname check, no certificate
\* verification
ssl_context == [check_hostname |-> FALSE, verify_mode |-> "CERT_NONE"]

\* the truth value of a bool | None argument: None and False are false
IsTrue(x) == ~IsNone(x) /\ x[1]

\* lines 91-101: the keyword arguments of session.request, without the body;
\* ssl is None (the client's default verification) or self.ssl_context
request_base(a, method, request_headers) ==
    [method |-> method.value, url |-> a.url, headers |-> request_headers,
     params |-> a.params, timeout |-> a.timeout, allow_redirects |-> a.allow_redirects,
     ssl |-> IF IsTrue(a.verify_ssl) THEN None ELSE Some(ssl_context)]

\* mutant: json_data is serialized by the Content-Type, like data
request_body_by_content_type(a, request_headers) ==
    LET content_type == IF "Content-Type" \in DOMAIN request_headers
                        THEN request_headers["Content-Type"] ELSE ""
        body == IF ~IsNone(a.data) THEN a.data ELSE a.json_data
    IN IF IsNone(body) THEN [json |-> None, data |-> None]
       ELSE IF body[1].type \in {"dict", "list"} /\ ContainsJson(content_type)
       THEN [json |-> body, data |-> None]
       ELSE [json |-> None, data |-> body]

\* lines 103-110: which of data and json_data becomes the request body
request_body(a, request_headers) ==
    LET content_type == IF "Content-Type" \in DOMAIN request_headers
                        THEN request_headers["Content-Type"] ELSE ""
    IN IF ~IsNone(a.data)
       THEN IF a.data[1].type \in {"dict", "list"} /\ ContainsJson(content_type)
            THEN [json |-> a.data, data |-> None]
            ELSE [json |-> None, data |-> a.data]
       ELSE IF ~IsNone(a.json_data) THEN [json |-> a.json_data, data |-> None]
       ELSE [json |-> None, data |-> None]

\* response.headers.get('Content-Type', '').lower(), on the content types of
\* the model
content_type_lower(value) ==
    IF value = "Application/JSON" THEN "application/json" ELSE value

\* lines 116-139: the envelope made from a response; reading the body of an
\* unreadable response raises ClientPayloadError, a failed JSON parse falls back
\* to the text
read_response(response, sent) ==
    LET content_type == content_type_lower(response.content_type)
        is_json == ContainsJson(content_type)
        response_data == [status |-> response.status, headers |-> response.headers,
                          url |-> response.url, content_type |-> content_type,
                          is_success |-> 200 <= response.status /\ response.status < 300]
    IN IF ~response.readable THEN CallRaised("ClientPayloadError", sent)
       ELSE IF is_json /\ ~IsNone(response.json)
       THEN CallReturned(DictSet(response_data, "data", response.json[1]), sent)
       ELSE CallReturned(DictSet(response_data, "data", response.text), sent)

\* mutant: the defaults are laid over the caller's headers
merged_headers_defaults_win(headers) ==
    IF ~IsNone(headers) /\ headers[1] # EmptyDict
    THEN DictUpdate(headers[1], default_headers) ELSE default_headers

\* lines 83-85: a copy of the defaults, updated with the caller's headers
merged_headers(headers) ==
    IF ~IsNone(headers) /\ headers[1] # EmptyDict
    THEN DictUpdate(default_headers, headers[1]) ELSE default_headers

\* self.default_headers after a call that built request_headers: lines 85 and
\* 89 update the copy made at line 83, so the stored dict is as it was
default_headers_after(request_headers) == default_headers

\* the body of call's try (lines 79-139); net is what session.request does
\* with the request: [kind |-> "raises", error] or [kind |-> "response", ...]
call_try(a, net) ==
    IF a.method.type = "str" /\ str_upper(a.method.value) \notin HTTPMethod
    THEN CallRaised("ValueError", << >>)
    ELSE LET method == IF a.method.type = "str" THEN MethodMember(str_upper(a.method.value))
                       ELSE a.method
             merged == merged_headers(a.headers)
             request_headers == IF ~IsNone(a.auth) /\ a.auth[1] # EmptyDict
                                THEN DictUpdate(merged, prepare_auth_headers(a.auth[1]))
                                ELSE merged
             body == request_body(a, request_headers)
         IN IF method.type # "HTTPMethod" THEN CallRaised("AttributeError", << >>)
            ELSE LET request == DictUpdate(request_base(a, method, request_headers), body)
                 IN IF net.kind = "raises" THEN CallRaised(net.error, <<request>>)
                    ELSE read_response(net, <<request>>)

\* mutant: call without its except clauses
call_uncaught(a, net) == call_try(a, net)

\* APICaller.call: a ClientError and any other exception become error envelopes
call(a, net) ==
    LET r == call_try(a, net)
    IN IF r.exc = "" THEN r
       ELSE IF r.exc \in ClientErrors
       THEN CallReturned(ClientErrorEnvelope(r.exc), r.dispatched)
       ELSE CallReturned(UnexpectedErrorEnvelope(r.exc), r.dispatched)

\* the parameters of call and their defaults (lines 47-59)
CallParameters ==
    {"url", "method", "headers", "params", "data", "json_data", "auth", "timeout",
     "allow_redirects", "verify_ssl"}
CallDefaults ==
    [method |-> MethodMember(<<"G", "E", "T">>), headers |-> None, params |-> None,
     data |-> None, json_data |-> None, auth |-> None, timeout |-> 30,
     allow_redirects |-> TRUE, verify_ssl |-> Some(TRUE)]

\* caller.call(**kwargs): a keyword that is no parameter of call, or a missing
\* url, raises TypeError at the call, before the body of call runs
call_with(kwargs, net) ==
    IF ~(DOMAIN kwargs \subseteq CallParameters) \/ "url" \notin DOMAIN kwargs
    THEN CallRaised("TypeError", << >>)
    ELSE call(DictUpdate(CallDefaults, kwargs), net)

\* ---------------------------------------------------------- POST /api/call
\* (api/routes.py lines 88-112)

\* the fields of the response model APICallResponse a returned dict must have
APICallResponseRequired == {"status_code", "headers", "content", "is_success"}

\* x or {}
OrEmptyDict(x) == IF IsNone(x) \/ x[1] = EmptyDict THEN Some(EmptyDict) ELSE x

\* call_api: an exception inside the try becomes HTTP 500 (lines 110-112); a
\* returned dict that does not fit the response model is a server error too
call_api(request, net) ==
    LET kwargs == [url |-> request.url, method |-> MethodStr(request.method),
                   headers |-> OrEmptyDict(request.headers),
                   params |-> OrEmptyDict(request.params),
                   body |-> request.body, auth |-> request.auth]
        r == call_with(kwargs, net)
    IN IF r.exc # ""
       THEN [status |-> 500, detail |-> r.exc, body |-> None, dispatched |-> r.dispatched]
       ELSE IF ~(APICallResponseRequired \subseteq DOMAIN r.val[1])
       THEN [status |-> 500, detail |-> "ResponseValidationError", body |-> None,
             dispatched |-> r.dispatched]
       ELSE [status |-> 200, detail |-> "", body |-> r.val, dispatched |-> r.dispatched]

\* ------------------------------------------------------------------------
\* SpecApi: calls of the HTTP executor (as the call_api tool makes them, with
\* keyword arguments) and POST /api/call requests.

\* calls in one behaviour of SpecApi
MaxApiCalls == 1

ApiUrl == "https://api.example.com/users"
ApiMethods ==
    {MethodStr(<<"g", "e", "t">>), MethodStr(<<"F", "O", "O">>),
     MethodMember(<<"P", "O", "S", "T">>), MethodNone}
ApiHeaders ==
    {None, Some([k \in {"Content-Type"} |-> "text/plain"]),
     Some([k \in {"Accept", "X-Trace"} |-> IF k = "Accept" THEN "text/html" ELSE "t1"])}
SomeBody == PyDict([k \in {"a"} |-> 1])
SomeJsonBody == PyDict([k \in {"b"} |-> 2])
\* (data, json_data) pairs: none, either, both, and a raw str body
ApiBodies ==
    {[data |-> None, json_data |-> None], [data |-> Some(SomeBody), json_data |-> None],
     [data |-> None, json_data |-> Some(SomeJsonBody)],
     [data |-> Some(SomeBody), json_data |-> Some(SomeJsonBody)],
     [data |-> Some(PyStr("raw")), json_data |-> None]}
\* every variant, an api_key for the Authorization header, and a bearer config
\* that also has the fields of basic
ApiAuths ==
    {None,
     Some([type |-> "Basic", username |-> <<"u">>, password |-> <<"p">>]),
     Some([type |-> "bearer", token |-> <<"t">>]),
     Some([type |-> "api_key", key |-> "X-API-Key", value |-> <<"k", "1">>]),
     Some([type |-> "api_key", key |-> "Authorization", value |-> <<"k", "1">>]),
     Some([type |-> "bearer", token |-> <<"t">>, username |-> <<"u">>, password |-> <<"p">>])}

\* the keyword arguments of one call; verify_ssl is passed only when given,
\* and is then True, False or None (APICallSchema: bool | None)
Kwargs(method, headers, body, auth, ssl) ==
    LET full == [url |-> ApiUrl, method |-> method, headers |-> headers,
                 data |-> body.data, json_data |-> body.json_data, auth |-> auth,
                 verify_ssl |-> IF IsNone(ssl) THEN Some(TRUE) ELSE ssl[1]]
        keys == {"url", "method", "headers", "data", "json_data", "auth"}
                    \cup (IF IsNone(ssl) THEN {} ELSE {"verify_ssl"})
    IN [k \in keys |-> full[k]]

ApiKwargs ==
    {Kwargs(m, h, b, None, None) : m \in ApiMethods, h \in ApiHeaders, b \in ApiBodies}
    \cup {Kwargs(MethodStr(<<"g", "e", "t">>), h, [data |-> None, json_data |-> None], au, ssl) :
            h \in ApiHeaders, au \in ApiAuths,
            ssl \in {None, Some(Some(TRUE)), Some(Some(FALSE)), Some(None)}}

\* a response of the remote server
Response(status, content_type, json, text, readable) ==
    [kind |-> "response", status |-> status, content_type |-> content_type,
     headers |-> [k \in {"Content-Type"} |-> content_type], url |-> ApiUrl,
     json |-> json, text |-> text, readable |-> readable]
\* what session.request does: a response, or an exception (connection error,
\* timeout)
ApiNets ==
    {Response(200, "application/json", Some([k \in {"ok"} |-> 1]), "{\"ok\": 1}", TRUE),
     Response(404, "text/html", None, "not found", TRUE),
     Response(200, "Application/JSON", None, "{oops", TRUE),
     Response(200, "text/plain", None, "", FALSE),
     [kind |-> "raises", error |-> "ClientConnectorError"],
     [kind |-> "raises", error |-> "TimeoutError"]}

\* request bodies of POST /api/call that pass APICallRequest's validation
ApiRequests ==
    {[url |-> ApiUrl, method |-> m, headers |-> h, params |-> None, body |-> b, auth |-> au] :
        m \in {<<"G", "E", "T">>, <<"p", "o", "s", "t">>},
        h \in {None, Some([k \in {"Accept"} |-> "text/html"])},
        b \in {None, Some(SomeBody), Some(PyStr("raw"))},
        au \in {None, Some([type |-> "bearer", token |-> <<"t">>])}}

ApiFrame == <<redis, store, now, nextId, nextText, idle, appended, agent_instance,
              session_manager, procs, lastWriter>>

\* one call of APICaller.call with keyword arguments
Call_call(kwargs, net) ==
    /\ LET r == call_with(kwargs, net)
       IN ret' = [op |-> "call", arg |-> kwargs, net |-> net, raised |-> r.exc,
                  val |-> r.val, dispatched |-> r.dispatched,
                  default_headers |->
                      IF r.dispatched = << >> THEN default_headers
                      ELSE default_headers_after(r.dispatched[1].headers)]
    /\ prev' = ret
    /\ calls' = calls + 1
    /\ UNCHANGED ApiFrame

\* one POST /api/call request
Call_call_api(request, net) ==
    /\ LET r == call_api(request, net)
       IN ret' = [op |-> "call_api", arg |-> request, net |-> net, status |-> r.status,
                  detail |-> r.detail, val |-> r.body, dispatched |-> r.dispatched]
    /\ prev' = ret
    /\ calls' = calls + 1
    /\ UNCHANGED ApiFrame

InitApi == Init /\ redis = TRUE

NextApi ==
    \/ calls < MaxApiCalls /\ \E kwargs \in ApiKwargs, net \in ApiNets : Call_call(kwargs, net)
    \/ calls < MaxApiCalls /\ \E request \in ApiRequests, net \in ApiNets :
          Call_call_api(request, net)

SpecApi == InitApi /\ [][NextApi]_vars

\* ------------------------------------------------------------------------
\* Claims checked under SpecApi

\* C12 as stated: every POST /api/call request with a valid descriptor is
\* answered with the executor's envelope, never with HTTP 500, and the executor
\* was handed the descriptor: the request it dispatched carries the body.
C12_CallApiReturnsEnvelope ==
    ret.op = "call_api" =>
        /\ ret.status # 500
        /\ ~IsNone(ret.val)
        /\ Len(ret.dispatched) = 1
        /\ ~IsNone(ret.arg.body) =>
              (ret.dispatched[1].json = ret.arg.body \/ ret.dispatched[1].data = ret.arg.body)

\* a call of the executor that was given both a body and a JSON body
BothBodies(r) ==
    /\ r.op = "call"
    /\ "data" \in DOMAIN r.arg /\ ~IsNone(r.arg.data)
    /\ "json_data" \in DOMAIN r.arg /\ ~IsNone(r.arg.json_data)

\* C13 as stated: a request dispatched by a call that was given both data and
\* json_data carries json_data as its JSON payload and not the data; no
\* dispatched request carries both a JSON payload and a data body.
C13_JsonBodyWins ==
    ret.op = "call" =>
        \A i \in DOMAIN ret.dispatched :
            /\ ~(~IsNone(ret.dispatched[i].json) /\ ~IsNone(ret.dispatched[i].data))
            /\ BothBodies(ret) =>
                  /\ ret.dispatched[i].json = ret.arg.json_data
                  /\ IsNone(ret.dispatched[i].data)

\* the method argument is no HTTP method
BadMethod(kwargs) ==
    \/ kwargs.method.type = "NoneType"
    \/ kwargs.method.type = "str" /\ str_upper(kwargs.method.value) \notin HTTPMethod

\* the call failed before the dispatch (bad method) or in it (the connection
\* failed, timed out, or broke while the body was read)
CallFailed(r) ==
    \/ BadMethod(r.arg)
    \/ r.net.kind = "raises"
    \/ r.net.kind = "response" /\ ~r.net.readable

\* C14: APICaller.call never raises; when the call failed before or during the
\* dispatch it returns an envelope with status 0, is_success false and an error
\* field; otherwise it returns the response's envelope, without an error field.
C14_CallNeverRaises ==
    ret.op = "call" =>
        /\ ret.raised = "" /\ ~IsNone(ret.val)
        /\ CallFailed(ret) =>
              /\ ret.val[1].status = 0 /\ ret.val[1].is_success = FALSE
              /\ "error" \in DOMAIN ret.val[1]
              /\ BadMethod(ret.arg) => ret.dispatched = << >>
        /\ ~CallFailed(ret) =>
              /\ "error" \notin DOMAIN ret.val[1]
              /\ ret.val[1].status = ret.net.status
              /\ Len(ret.dispatched) = 1

\* C14 witness: the dispatched request timed out and the call returned the
\* error envelope
C14_Witness ==
    /\ ret.op = "call" /\ ret.net.kind = "raises" /\ ret.net.error = "TimeoutError"
    /\ Len(ret.dispatched) = 1
    /\ ret.raised = ""
    /\ ret.val[1].status = 0 /\ ret.val[1].is_success = FALSE
    /\ ret.val[1].error.cause = "TimeoutError"

\* a call of the executor that was given an auth config and dispatched a
\* request
AuthDispatched(r) ==
    /\ r.op = "call" /\ "auth" \in DOMAIN r.arg /\ ~IsNone(r.arg.auth)
    /\ Len(r.dispatched) = 1

\* the headers of the request without authentication: the defaults overridden
\* by the caller's
HeadersWithoutAuth(kwargs) ==
    IF IsNone(kwargs.headers) THEN default_headers
    ELSE DictUpdate(default_headers, kwargs.headers[1])

\* the Authorization value of the basic and bearer variants
VariantHeader(auth) ==
    IF auth_type_of(auth) = "basic"
    THEN <<"Basic", " ">> \o b64encode(auth.username \o <<":">> \o auth.password)
    ELSE <<"Bearer", " ">> \o auth.token

\* C21 as stated: the headers of an authenticated request are the headers
\* without authentication plus one header: Authorization = "Basic " +
\* base64(username:password) for basic, "Bearer " + token for bearer, "Bearer " +
\* value for an api_key whose header name is Authorization, and the header of
\* that name with the raw value for any other api_key.
C21_AuthHeadersAsStated ==
    AuthDispatched(ret) =>
        LET auth == ret.arg.auth[1]
            sent == ret.dispatched[1].headers
            key == IF auth_type_of(auth) = "api_key" THEN auth.key ELSE "Authorization"
        IN /\ DOMAIN sent = DOMAIN HeadersWithoutAuth(ret.arg) \cup {key}
           /\ \A k \in DOMAIN sent \ {key} : sent[k] = HeadersWithoutAuth(ret.arg)[k]
           /\ sent[key] =
                 IF auth_type_of(auth) # "api_key" THEN VariantHeader(auth)
                 ELSE IF key = "Authorization" THEN <<"Bearer", " ">> \o auth.value
                 ELSE auth.value

\* C21 amended: as C21, but an api_key sets its header, Authorization included,
\* to the raw value: no "Bearer " is put before it.
C21_AuthHeaders ==
    AuthDispatched(ret) =>
        LET auth == ret.arg.auth[1]
            sent == ret.dispatched[1].headers
            key == IF auth_type_of(auth) = "api_key" THEN auth.key ELSE "Authorization"
        IN /\ DOMAIN sent = DOMAIN HeadersWithoutAuth(ret.arg) \cup {key}
           /\ \A k \in DOMAIN sent \ {key} : sent[k] = HeadersWithoutAuth(ret.arg)[k]
           /\ sent[key] =
                 IF auth_type_of(auth) # "api_key" THEN VariantHeader(auth)
                 ELSE auth.value

\* C21 witness: a request authenticated by an api_key for the Authorization
\* header was dispatched with the raw key as that header
C21_Witness ==
    /\ AuthDispatched(ret)
    /\ ret.arg.auth[1].type = "api_key" /\ ret.arg.auth[1].key = "Authorization"
    /\ ret.dispatched[1].headers["Authorization"] = <<"k", "1">>

\* the headers a caller passed: none when the argument is None
CallerHeaders(kwargs) == IF IsNone(kwargs.headers) THEN EmptyDict ELSE kwargs.headers[1]

JsonBodyOnly(r) ==
    /\ r.op = "call" /\ ~BadMethod(r.arg)
    /\ IsNone(r.arg.data) /\ ~IsNone(r.arg.json_data)

\* C23: a call that is given json_data and no data does not raise and
\* dispatches one request whose JSON payload is the json_data and which has no
\* data body, whatever Content-Type the caller's headers set; the Content-Type
\* header goes out as the caller set it.
C23_JsonBodyAsJson ==
    JsonBodyOnly(ret) =>
        /\ ret.raised = "" /\ ~IsNone(ret.val)
        /\ Len(ret.dispatched) = 1
        /\ ret.dispatched[1].json = ret.arg.json_data
        /\ IsNone(ret.dispatched[1].data)
        /\ "Content-Type" \in DOMAIN CallerHeaders(ret.arg) =>
              ret.dispatched[1].headers["Content-Type"] = CallerHeaders(ret.arg)["Content-Type"]

\* C23 witness: json_data went out as the JSON payload of a request whose
\* Content-Type the caller set to text/plain, and the server answered
C23_Witness ==
    /\ JsonBodyOnly(ret)
    /\ ret.dispatched[1].headers["Content-Type"] = "text/plain"
    /\ ret.dispatched[1].json = Some(SomeJsonBody)
    /\ ret.raised = "" /\ ret.val[1].is_success

\* C24 as stated: a request is dispatched with certificate verification and
\* hostname checking disabled only when the call was given verify_ssl = False;
\* a call without verify_ssl verifies, and a parsed descriptor never has
\* verify_ssl = False.
C24_InsecureOnlyOnFalse ==
    /\ ret.op = "call" =>
          \A i \in DOMAIN ret.dispatched :
              ~IsNone(ret.dispatched[i].ssl) =>
                  "verify_ssl" \in DOMAIN ret.arg /\ ret.arg.verify_ssl = Some(FALSE)
    /\ ret.op = "call_from_natural_language" =>
          /\ ~IsNone(ret.parsed) => ret.parsed[1].verify_ssl = Some(TRUE)
          /\ \A i \in DOMAIN ret.dispatched : IsNone(ret.dispatched[i].ssl)

\* ------------------------------------------------------------ request parser
\* (APICaller._parse_natural_language_request, api_caller.py lines 234-319)
\* A request text is the sequence of its characters; the regular expressions
\* of the parser are matched as re matches them: leftmost, alternatives in the
\* order written, repetitions greedy with backtracking.

\* \s
IsSpace(c) == c \in {" ", "\t", "\n"}
\* \w
IsWordChar(c) == IsLower(c) \/ IsUpper(c) \/ c \in Digits \/ c = "_"
\* the character classes of the parser's expressions
InClass(cls, c) ==
    CASE cls = "space" -> IsSpace(c)                              \* \s
      [] cls = "word" -> IsWordChar(c)                            \* \w
      [] cls = "word_dash" -> IsWordChar(c) \/ c = "-"            \* [\w-]
      [] cls = "space_colon" -> IsSpace(c) \/ c = ":"             \* [\s:]
      [] cls = "sep" -> IsSpace(c) \/ c \in {",", ";"}            \* [\s,;]
      [] cls = "not_sep" -> ~(IsSpace(c) \/ c \in {",", ";"})     \* [^\s,;]
      [] cls = "url" -> ~(IsSpace(c) \/ c \in {"?", "&", "#"})    \* [^\s\?&#]

\* an expression is a sequence of items: a choice of literals in order of
\* preference (an optional part is a choice with and without it), or one or
\* more characters of a class; cap is the group the item's text is captured in
Lit(alts, cap) == [t |-> "lit", alts |-> alts, cls |-> "", cap |-> cap]
Plus(cls, cap) == [t |-> "plus", alts |-> << >>, cls |-> cls, cap |-> cap]

\* one character, case folded (re.IGNORECASE; the expressions compiled without
\* it contain no letters)
Fold(c) == IF IsUpper(c) THEN LowerCase[IndexIn(UpperCase, c)] ELSE c
\* the literal lit stands at position p of s
LitAt(s, p, lit) ==
    /\ p + Len(lit) - 1 <= Len(s)
    /\ \A j \in 1..Len(lit) : Fold(s[p + j - 1]) = Fold(lit[j])
\* the number of characters of class cls that follow from position p of s
RunLen(s, p, cls) ==
    LET stops == {q \in p..Len(s) : ~InClass(cls, s[q])}
    IN IF stops = {} THEN Len(s) - p + 1
       ELSE (CHOOSE q \in stops : \A x \in stops : q <= x) - p

\* a match: where it ends (the position after its last character) and the
\* spans [from, to) of its groups
NoMatch == [ok |-> FALSE, start |-> 0, end |-> 0, caps |-> << >>]
NoCaps == <<[from |-> 0, to |-> 0], [from |-> 0, to |-> 0]>>
SetCap(caps, g, from, to) ==
    IF g = 0 THEN caps ELSE [caps EXCEPT ![g] = [from |-> from, to |-> to]]

RECURSIVE MatchItems(_, _, _, _, _, _)
RECURSIVE TryAlts(_, _, _, _, _, _, _)
RECURSIVE TryRuns(_, _, _, _, _, _, _)

\* the items re[i..] matched from position p of s, the match having begun at p0
MatchItems(re, i, s, p0, p, caps) ==
    IF i > Len(re) THEN [ok |-> TRUE, start |-> p0, end |-> p, caps |-> caps]
    ELSE IF re[i].t = "lit" THEN TryAlts(re, i, s, p0, p, caps, 1)
    ELSE TryRuns(re, i, s, p0, p, caps, RunLen(s, p, re[i].cls))

\* the alternatives of item i from the a-th on
TryAlts(re, i, s, p0, p, caps, a) ==
    IF a > Len(re[i].alts) THEN NoMatch
    ELSE LET lit == re[i].alts[a]
             r == IF LitAt(s, p, lit)
                  THEN MatchItems(re, i + 1, s, p0, p + Len(lit),
                                  SetCap(caps, re[i].cap, p, p + Len(lit)))
                  ELSE NoMatch
         IN IF r.ok THEN r ELSE TryAlts(re, i, s, p0, p, caps, a + 1)

\* item i taking k characters, then fewer
TryRuns(re, i, s, p0, p, caps, k) ==
    IF k < 1 THEN NoMatch
    ELSE LET r == MatchItems(re, i + 1, s, p0, p + k, SetCap(caps, re[i].cap, p, p + k))
         IN IF r.ok THEN r ELSE TryRuns(re, i, s, p0, p, caps, k - 1)

\* re.match: at the start of s
re_match(re, s) == MatchItems(re, 1, s, 1, 1, NoCaps)

\* re.search from position from on: the leftmost match
re_search_from(re, s, from) ==
    LET hits == {p \in from..Len(s) : MatchItems(re, 1, s, p, p, NoCaps).ok}
    IN IF hits = {} THEN NoMatch
       ELSE MatchItems(re, 1, s, CHOOSE p \in hits : \A x \in hits : p <= x,
                       CHOOSE p \in hits : \A x \in hits : p <= x, NoCaps)
re_search(re, s) == re_search_from(re, s, 1)

RECURSIVE re_findall_from(_, _, _)
\* re.findall: the matches from left to right, none overlapping
re_findall_from(re, s, from) ==
    LET m == re_search_from(re, s, from)
    IN IF ~m.ok THEN << >> ELSE <<m>> \o re_findall_from(re, s, m.end)
re_findall(re, s) == re_findall_from(re, s, 1)

\* match.group(g)
Group(s, m, g) == SubSeq(s, m.caps[g].from, m.caps[g].to - 1)
\* s[from:] with from a match end
From(s, from) == SubSeq(s, from, Len(s))
\* str.strip
Strip(s) ==
    LET inked == {i \in 1..Len(s) : ~IsSpace(s[i])}
    IN IF inked = {} THEN << >>
       ELSE SubSeq(s, CHOOSE i \in inked : \A x \in inked : i <= x,
                   CHOOSE i \in inked : \A x \in inked : i >= x)
\* str.startswith, case sensitive
StartsWith(s, prefix) == Len(s) >= Len(prefix) /\ SubSeq(s, 1, Len(prefix)) = prefix

\* line 264: ^(GET|POST|PUT|DELETE|PATCH|HEAD|OPTIONS)\s+
MethodRe ==
    <<Lit(<<<<"G", "E", "T">>, <<"P", "O", "S", "T">>, <<"P", "U", "T">>, <<"D", "E", "L", "E", "T", "E">>, <<"P", "A", "T", "C", "H">>, <<"H", "E", "A", "D">>,
            <<"O", "P", "T", "I", "O", "N", "S">>>>, 1),
      Plus("space", 0)>>
\* line 270: (https?://[^\s\?&#]+|www\.[^\s\?&#]+)
UrlRe == <<Lit(<<<<"h", "t", "t", "p", "s", ":", "/", "/">>, <<"h", "t", "t", "p", ":", "/", "/">>, <<"w", "w", "w", ".">>>>, 0), Plus("url", 0)>>
\* line 289: (?:api[_-]?key|token)[\s:]+([\w-]+)
ApiKeyRe ==
    <<Lit(<<<<"a", "p", "i", "_", "k", "e", "y">>, <<"a", "p", "i", "-", "k", "e", "y">>, <<"a", "p", "i", "k", "e", "y">>, <<"t", "o", "k", "e", "n">>>>, 0),
      Plus("space_colon", 0), Plus("word_dash", 1)>>
\* line 298: user(?:name)?[\s:]+([^\s,;]+)[\s,;]+pass(?:word)?[\s:]+([^\s,;]+)
BasicAuthRe ==
    <<Lit(<<<<"u", "s", "e", "r", "n", "a", "m", "e">>, <<"u", "s", "e", "r">>>>, 0), Plus("space_colon", 0), Plus("not_sep", 1),
      Plus("sep", 0),
      Lit(<<<<"p", "a", "s", "s", "w", "o", "r", "d">>, <<"p", "a", "s", "s">>>>, 0), Plus("space_colon", 0), Plus("not_sep", 2)>>
\* line 315: (\w+)=([^\s,;]+)
FormRe == <<Plus("word", 1), Lit(<<<<"=">>>>, 0), Plus("not_sep", 2)>>

\* line 307: \{.*\} with DOTALL: from the first "{" that has a "}" after it to
\* the last "}"
json_span(s) ==
    LET closes == {i \in 1..Len(s) : s[i] = "}"}
        last == CHOOSE i \in closes : \A x \in closes : i >= x
        opens == {i \in 1..Len(s) : s[i] = "{" /\ closes # {} /\ i < last}
    IN IF opens = {} THEN None
       ELSE Some(SubSeq(s, CHOOSE i \in opens : \A x \in opens : i <= x, last))

\* json.loads on the brace spans of the model's texts: "{}" is the empty
\* object, every other span of these texts is not JSON (JSONDecodeError)
json_loads_text(s) == IF s = <<"{", "}">> THEN Some(EmptyDict) ELSE None

\* dict(pairs): for a key given twice the last value stays
DictOfPairs(pairs) ==
    [k \in {pairs[i][1] : i \in DOMAIN pairs} |->
        LET at == {i \in DOMAIN pairs : pairs[i][1] = k}
        IN pairs[CHOOSE i \in at : \A x \in at : i >= x][2]]

RECURSIVE Split(_, _)
\* str.split(c)
Split(s, c) ==
    LET at == {i \in 1..Len(s) : s[i] = c}
        first == CHOOSE i \in at : \A x \in at : i <= x
    IN IF at = {} THEN <<s>>
       ELSE <<SubSeq(s, 1, first - 1)>> \o Split(SubSeq(s, first + 1, Len(s)), c)
\* str.split(c, 1)
SplitOnce(s, c) ==
    LET at == {i \in 1..Len(s) : s[i] = c}
        first == CHOOSE i \in at : \A x \in at : i <= x
    IN IF at = {} THEN <<s>> ELSE <<SubSeq(s, 1, first - 1), SubSeq(s, first + 1, Len(s))>>

\* urllib.parse.parse_qsl on a query string without escapes: the name=value
\* fields between "&", those with an empty value left out
parse_qsl(query_string) ==
    LET fields == Split(query_string, "&")
        IsPair(f) == Len(SplitOnce(f, "=")) = 2 /\ SplitOnce(f, "=")[2] # << >>
        kept == SelectSeq(fields, IsPair)
    IN [i \in 1..Len(kept) |-> SplitOnce(kept[i], "=")]

\* lines 274-276: a URL matched without a scheme gets https://
url_with_scheme(matched) ==
    IF StartsWith(matched, <<"h", "t", "t", "p", ":", "/", "/">>) \/ StartsWith(matched, <<"h", "t", "t", "p", "s", ":", "/", "/">>)
    THEN matched ELSE <<"h", "t", "t", "p", "s", ":", "/", "/">> \o matched

\* lines 279-283: the URL without its query string, and the query string decoded
HasQuery(url) == \E i \in 1..Len(url) : url[i] = "?"
url_of(url) == IF HasQuery(url) THEN SplitOnce(url, "?")[1] ELSE url
params_of(url) ==
    IF HasQuery(url)
    THEN DictOfPairs(parse_qsl(SplitOnce(SplitOnce(url, "?")[2], "#")[1]))
    ELSE EmptyDict

\* mutant: the api-key match is looked for last and overrides the basic auth
auth_of_key_last(remaining_text, api_key_match, auth_match) ==
    IF api_key_match.ok
    THEN Some([type |-> "api_key", key |-> "Authorization",
               value |-> SchemeValue("Bearer", Group(remaining_text, api_key_match, 1))])
    ELSE IF auth_match.ok
    THEN Some([type |-> "basic",
               username |-> Group(remaining_text, auth_match, 1),
               password |-> Group(remaining_text, auth_match, 2)])
    ELSE None

\* lines 288-304: the api-key match sets an api_key auth, the username/password
\* match, looked for after it, sets basic auth
auth_of(remaining_text, api_key_match, auth_match) ==
    IF auth_match.ok
    THEN Some([type |-> "basic",
               username |-> Group(remaining_text, auth_match, 1),
               password |-> Group(remaining_text, auth_match, 2)])
    ELSE IF api_key_match.ok
    THEN Some([type |-> "api_key", key |-> "Authorization",
               value |-> SchemeValue("Bearer", Group(remaining_text, api_key_match, 1))])
    ELSE None

\* lines 306-312: the brace span parsed as JSON, None when there is none or it
\* does not parse
json_of(json_match) == IF IsNone(json_match) THEN None ELSE json_loads_text(json_match[1])

\* lines 314-317: the name=value fields become the data, unless a JSON body was
\* found
data_of(remaining_text, found, json) ==
    IF found # << >> /\ IsNone(json)
    THEN Some(PyDict(DictOfPairs([i \in 1..Len(found) |->
                                     <<Group(remaining_text, found[i], 1),
                                       Group(remaining_text, found[i], 2)>>])))
    ELSE None

\* lines 252-261 and 319: the result dict; the json key is there only when a
\* JSON body was found
parse_result(method, url, auth, json, data) ==
    LET result == [method |-> method, url |-> url_of(url), headers |-> EmptyDict,
                   params |-> params_of(url), data |-> data, auth |-> auth,
                   timeout |-> 30, verify_ssl |-> Some(TRUE)]
    IN IF IsNone(json) THEN result ELSE DictSet(result, "json", PyDict(json[1]))

\* lines 285-319: what is read from the text after the URL
parse_remaining(method, url, remaining_text) ==
    parse_result(method, url,
                 auth_of(remaining_text, re_search(ApiKeyRe, remaining_text),
                         re_search(BasicAuthRe, remaining_text)),
                 json_of(json_span(remaining_text)),
                 data_of(remaining_text, re_findall(FormRe, remaining_text),
                         json_of(json_span(remaining_text))))

\* the descriptor _parse_natural_language_request returns, or ValueError
Parsed(result) == [exc |-> "", val |-> Some(result)]
ParseError == [exc |-> "ValueError", val |-> None]

\* mutant: a request without a URL is taken for a host name
parse_url_lenient(method, request, url_match) ==
    IF ~url_match.ok
    THEN Parsed(parse_remaining(method, <<"h", "t", "t", "p", "s", ":", "/", "/">> \o request, << >>))
    ELSE Parsed(parse_remaining(method,
                                url_with_scheme(SubSeq(request, url_match.start,
                                                       url_match.end - 1)),
                                Strip(From(request, url_match.end))))

\* lines 269-286: the URL is searched in the request; without one the parser
\* raises ValueError
parse_url(method, request, url_match) ==
    IF ~url_match.ok THEN ParseError
    ELSE Parsed(parse_remaining(method,
                                url_with_scheme(SubSeq(request, url_match.start,
                                                       url_match.end - 1)),
                                Strip(From(request, url_match.end))))

\* lines 263-267: a leading method word is taken off the request
parse_method(text, method_match) ==
    IF method_match.ok
    THEN parse_url(str_upper(Group(text, method_match, 1)),
                   Strip(From(text, method_match.end)),
                   re_search(UrlRe, Strip(From(text, method_match.end))))
    ELSE parse_url(<<"G", "E", "T">>, text, re_search(UrlRe, text))

\* _parse_natural_language_request (lines 234-319)
parse_natural_language_request(text) == parse_method(text, re_match(MethodRe, text))

\* lines 229-232: the envelope of a request that could not be processed
FailedToProcessEnvelope(cause) ==
    [error |-> [text |-> "Failed to process request", cause |-> cause],
     is_success |-> FALSE]

\* parsed.get(key): None when the key is missing
GetOrNone(parsed, key) == IF key \in DOMAIN parsed THEN Some(parsed[key]) ELSE None

\* lines 215-225: self.call with the fields of the parsed descriptor
call_parsed(parsed, net) ==
    call_with([url |-> parsed.url, method |-> MethodStr(parsed.method),
               headers |-> Some(parsed.headers), params |-> Some(parsed.params),
               data |-> parsed.data, json_data |-> GetOrNone(parsed, "json"),
               auth |-> parsed.auth, timeout |-> parsed.timeout,
               verify_ssl |-> parsed.verify_ssl], net)

\* lines 227-232: any exception becomes an envelope
process_caught(r) ==
    IF r.exc # "" THEN CallReturned(FailedToProcessEnvelope(r.exc), r.dispatched) ELSE r

\* call_from_natural_language (lines 210-232): parse, then call
process_request(p, net) ==
    IF p.exc # ""
    THEN process_caught(CallRaised(p.exc, << >>)) @@ [parsed |-> None]
    ELSE process_caught(call_parsed(p.val[1], net)) @@ [parsed |-> p.val]

call_from_natural_language(text, net) ==
    process_request(parse_natural_language_request(text), net)

\* ------------------------------------------------------------------------
\* SpecParse: calls of call_from_natural_language with request texts put
\* together from a method word, a URL, a query string and a remainder.

\* calls in one behaviour of SpecParse
MaxParses == 1

\* the URL of the examples
GoodUrl == <<"h", "t", "t", "p", "s", ":", "/", "/", "a", "p", "i", ".", "e", "x", "a", "m", "p", "l", "e", ".", "c", "o", "m", "/", "u", "s", "e", "r", "s">>
ParsePrefixes == {<< >>, <<"G", "E", "T", " ">>, <<"p", "o", "s", "t", " ", " ">>, <<"F", "e", "t", "c", "h", " ">>}
\* URLs with and without a scheme, in upper case, inside a word, and texts
\* without any
ParseUrls ==
    {GoodUrl, <<"h", "t", "t", "p", ":", "/", "/", "a", ".", "i", "o">>, <<"w", "w", "w", ".", "a", ".", "i", "o", "/", "p">>, <<"H", "T", "T", "P", ":", "/", "/", "A", ".", "i", "o">>, <<"s", "e", "e", ":", "h", "t", "t", "p", "s", ":", "/", "/", "a", ".", "i", "o">>,
     <<"a", ".", "i", "o">>, << >>, <<"h", "t", "t", "p", "s", ":", "/", "/", " ", "a", ".", "i", "o">>,
     <<"t", "h", "e", " ", "A", "P", "I", " ", "a", "t", " ", "e", "x", "a", "m", "p", "l", "e", ".", "c", "o", "m", " ", "w", "i", "t", "h", " ", "m", "y", " ", "A", "P", "I", " ", "k", "e", "y", " ", "1", "2", "3", "4", "5">>}
ParseQueries == {<< >>, <<"?", "x", "=", "1">>, <<"?", "x", "=", "1", "&", "x", "=", "2", "#", "f">>}
\* remainders: credentials of either kind, of both kinds in either order,
\* halves of the username/password pattern, brace spans and name=value fields
ParseTails ==
    {<< >>, <<" ", "t", "o", "k", "e", "n", ":", " ", "a", "b", "c", "1", "2", "3">>, <<" ", "a", "p", "i", "-", "k", "e", "y", " ", "k", "-", "1">>, <<" ", "u", "s", "e", "r", ":", " ", "b", "o", "b", " ", "p", "a", "s", "s", ":", " ", "p", "w">>,
     <<" ", "t", "o", "k", "e", "n", ":", " ", "a", "b", "c", "1", "2", "3", " ", "u", "s", "e", "r", "n", "a", "m", "e", ":", " ", "b", "o", "b", ",", " ", "p", "a", "s", "s", "w", "o", "r", "d", ":", " ", "p", "w">>,
     <<" ", "u", "s", "e", "r", " ", "b", "o", "b", ";", "p", "a", "s", "s", "w", "o", "r", "d", ":", "p", "w", " ", "a", "p", "i", "k", "e", "y", ":", " ", "K", "9">>,
     <<" ", "t", "o", "k", "e", "n", ":", " ", "t", "1", " ", "u", "s", "e", "r", ":", " ", "b", "o", "b">>, <<" ", "p", "a", "s", "s", "w", "o", "r", "d", ":", " ", "p", "w", " ", "a", "p", "i", "_", "k", "e", "y", ":", " ", "k", "2">>,
     <<" ", "{", "}">>, <<" ", "{", "x", "}", " ", "n", "=", "1", ";", "m", "=", "2">>}
ParseTexts ==
    {p \o u : p \in ParsePrefixes, u \in ParseUrls}
    \cup {p \o GoodUrl \o q \o t :
            p \in {<<"G", "E", "T", " ">>, <<"p", "o", "s", "t", " ", " ">>}, q \in ParseQueries, t \in ParseTails}
    \cup {<<"w", "w", "w", ".", "a", ".", "i", "o">> \o t : t \in ParseTails}
ParseNets ==
    {Response(200, "application/json", Some([k \in {"ok"} |-> 1]), "{\"ok\": 1}", TRUE),
     [kind |-> "raises", error |-> "ClientConnectorError"]}

\* one call of call_from_natural_language
Call_call_from_natural_language(text, net) ==
    /\ LET r == call_from_natural_language(text, net)
       IN ret' = [op |-> "call_from_natural_language", arg |-> text, net |-> net,
                  raised |-> r.exc, val |-> r.val, dispatched |-> r.dispatched,
                  parsed |-> r.parsed]
    /\ prev' = ret
    /\ calls' = calls + 1
    /\ UNCHANGED ApiFrame

NextParse ==
    calls < MaxParses /\ \E text \in ParseTexts, net \in ParseNets :
        Call_call_from_natural_language(text, net)

SpecParse == InitApi /\ [][NextParse]_vars

\* ------------------------------------------------------------------------
\* Claims checked under SpecParse

\* the text holds http://, https:// or www. somewhere, in any case
HasUrlPrefix(text) ==
    \E p \in 1..Len(text) :
        LitAt(text, p, <<"h", "t", "t", "p", ":", "/", "/">>) \/ LitAt(text, p, <<"h", "t", "t", "p", "s", ":", "/", "/">>) \/ LitAt(text, p, <<"w", "w", "w", ".">>)

RequestOf(text) ==
    IF re_match(MethodRe, text).ok THEN Strip(From(text, re_match(MethodRe, text).end))
    ELSE text
RemainderOf(text) == Strip(From(RequestOf(text), re_search(UrlRe, RequestOf(text)).end))

\* the text has a URL and what follows it matches both the api-key/token
\* pattern and the username/password pattern
BothAuthPatterns(text) ==
    /\ re_search(UrlRe, RequestOf(text)).ok
    /\ re_search(ApiKeyRe, RemainderOf(text)).ok
    /\ re_search(BasicAuthRe, RemainderOf(text)).ok

\* C16: when the text after the URL matches both patterns, in either order,
\* the parsed auth is the basic variant with the matched username and password
\* and carries nothing of the api_key variant, and the request is dispatched
\* with the Basic Authorization header.
C16_BasicAuthWins ==
    (ret.op = "call_from_natural_language" /\ BothAuthPatterns(ret.arg)) =>
        /\ ~IsNone(ret.parsed) /\ ~IsNone(ret.parsed[1].auth)
        /\ ret.parsed[1].auth[1] =
              [type |-> "basic",
               username |-> Group(RemainderOf(ret.arg),
                                  re_search(BasicAuthRe, RemainderOf(ret.arg)), 1),
               password |-> Group(RemainderOf(ret.arg),
                                  re_search(BasicAuthRe, RemainderOf(ret.arg)), 2)]
        /\ Len(ret.dispatched) = 1
        /\ ret.dispatched[1].headers["Authorization"][1] = "Basic"

\* C16 witness: the api-key pattern stands after the username/password pattern
\* and the auth is basic with the user bob
C16_Witness ==
    /\ ret.op = "call_from_natural_language" /\ BothAuthPatterns(ret.arg)
    /\ re_search(ApiKeyRe, RemainderOf(ret.arg)).start
          > re_search(BasicAuthRe, RemainderOf(ret.arg)).start
    /\ ret.parsed[1].auth[1].type = "basic"
    /\ ret.parsed[1].auth[1].username = <<"b", "o", "b">>
    /\ ret.parsed[1].auth[1].password = <<"p", "w">>

\* a text of the form "<METHOD> <base-url>?x=1 token: abc123"
QueryTokenText(text) ==
    \E p \in {<<"G", "E", "T", " ">>, <<"p", "o", "s", "t", " ", " ">>} : text = p \o GoodUrl \o <<"?", "x", "=", "1", " ", "t", "o", "k", "e", "n", ":", " ", "a", "b", "c", "1", "2", "3">>

\* C17 as stated: such a text parses to the method in upper case, the URL
\* without the query string, params {x: "1"} and an api_key auth whose
\* Authorization value is "Bearer abc123".
C17_QueryAndToken ==
    (ret.op = "call_from_natural_language" /\ QueryTokenText(ret.arg)) =>
        /\ ~IsNone(ret.parsed)
        /\ ret.parsed[1].method = str_upper(Group(ret.arg, re_match(MethodRe, ret.arg), 1))
        /\ ret.parsed[1].url = GoodUrl
        /\ ret.parsed[1].params = [k \in {<<"x">>} |-> <<"1">>]
        /\ ret.parsed[1].auth =
              Some([type |-> "api_key", key |-> "Authorization",
                    value |-> SchemeValue("Bearer", <<"a", "b", "c", "1", "2", "3">>)])

\* ------------------------------------------------------------------------
\* SpecAgent: calls of MultiAgent.arun with histories of up to three messages
\* of any role.

\* calls in one behaviour of SpecAgent
MaxRuns == 1

Roles == {"user", "assistant", "system", "tool"}
AgentLens == 0..3
\* the histories: message i has the text i; the last message may have no text
AgentHistories ==
    UNION {{[i \in 1..n |-> Message(roles[i], IF i = n /\ blank THEN EmptyText ELSE i)] :
                roles \in [1..n -> Roles], blank \in BOOLEAN} : n \in AgentLens}
\* what agent_executor.ainvoke does: an answer without or with tool steps, or
\* an exception from the model call or from a tool
AgentOutcomes ==
    {[kind |-> "ok", output |-> 10, steps |-> << >>, error |-> ""],
     [kind |-> "ok", output |-> 10, error |-> "",
      steps |-> <<Step("call_api", 1, 1), Step("analyze_github_repo", 2, 2)>>],
     [kind |-> "raises", output |-> EmptyText, steps |-> << >>, error |-> "model"],
     [kind |-> "raises", output |-> EmptyText, steps |-> << >>, error |-> "tool"]}

\* one call of arun
Call_arun(messages, model) ==
    /\ LET r == arun(messages, model)
       IN ret' = [op |-> "arun", arg |-> messages, model |-> model, raised |-> r.exc,
                  invoked |-> r.invoked, val |-> IF r.exc THEN None ELSE Some(r.val)]
    /\ prev' = ret
    /\ calls' = calls + 1
    /\ UNCHANGED ApiFrame

NextAgent ==
    calls < MaxRuns /\ \E messages \in AgentHistories, model \in AgentOutcomes :
        Call_arun(messages, model)

SpecAgent == InitApi /\ [][NextAgent]_vars

\* ------------------------------------------------------------------------
\* Claims checked under SpecAgent

NoUserMessage(messages) == \A i \in DOMAIN messages : messages[i].role # "user"

\* C18: when the history given to arun holds no message of role user, arun
\* returns the fixed "no input" assistant reply without tool calls and the
\* agent executor is not invoked.
C18_NoUserNoModel ==
    (ret.op = "arun" /\ NoUserMessage(ret.arg)) =>
        /\ ~ret.raised
        /\ ret.val = Some([message |-> Message("assistant", NoInputText),
                           tool_calls |-> None])
        /\ IsNone(ret.invoked)

\* C18 witness: a history of assistant, system and tool messages, with a model
\* that would have failed, got the fixed reply
C18_Witness ==
    /\ ret.op = "arun" /\ NoUserMessage(ret.arg) /\ Len(ret.arg) = 3
    /\ {ret.arg[i].role : i \in DOMAIN ret.arg} = {"assistant", "system", "tool"}
    /\ ret.model.kind = "raises"
    /\ ret.val[1].message.content = NoInputText /\ IsNone(ret.invoked)

\* C19 as stated: whenever arun invokes the model, the input is the content of
\* the last message of the history and the prior context is the messages before
\* the last one, all of them and in their order.
C19_LastMessageIsInput ==
    (ret.op = "arun" /\ ~IsNone(ret.invoked)) =>
        /\ ret.invoked[1].input = ret.arg[Len(ret.arg)].content
        /\ ret.invoked[1].chat_history =
              [i \in 1..(Len(ret.arg) - 1) |-> LangChainMessage(ret.arg[i])]

\* the model call or a tool raised during the call
AgentFailed(r) == r.op = "arun" /\ ~IsNone(r.invoked) /\ r.model.kind = "raises"

\* C20: arun never raises and always returns an assistant message; when the
\* model call or a tool failed, the message is the error description and there
\* are no tool calls.
C20_ArunNeverRaises ==
    ret.op = "arun" =>
        /\ ~ret.raised /\ ~IsNone(ret.val)
        /\ ret.val[1].message.role = "assistant"
        /\ AgentFailed(ret) =>
              /\ ret.val[1].message.content = ErrorText
              /\ IsNone(ret.val[1].tool_calls)

\* C20 witness: a tool raised while the agent worked on a user message and
\* arun answered with the error description
C20_Witness ==
    /\ AgentFailed(ret) /\ ret.model.error = "tool"
    /\ ret.arg[Len(ret.arg)].role = "user"
    /\ ~ret.raised
    /\ ret.val[1].message = Message("assistant", ErrorText)
    /\ IsNone(ret.val[1].tool_calls)

\* ------------------------------------------------------------------------
\* Claims checked under SpecRaceRead

\* the calls in flight have all returned, and one of them was a call of op
Finished(op) ==
    /\ AllDone
    /\ \E p \in DOMAIN procs : procs[p].op = op

\* C27 as stated: once a read and a clear_session of the same id that ran at
\* the same time have both returned, the id has no record in the store and its
\* history reads as empty, whatever the order of their store commands.
C27_ReadNeverResurrects ==
    Finished("clear_session") =>
        /\ RaceId \notin DOMAIN store
        /\ get_chat_history(store, redis, RaceId, now, {}).val = << >>

\* C28 as stated: once a read and an update_chat_history of the same id that
\* ran at the same time have both returned, the persisted history ends with
\* the messages the update appended, whatever the order of their store
\* commands.
C28_ReadKeepsAppended ==
    Finished("update_chat_history") =>
        \E p \in DOMAIN procs :
            /\ procs[p].op = "update_chat_history"
            /\ Len(Persisted(store, RaceId)) >= Len(procs[p].arg)
            /\ LastN(Persisted(store, RaceId), Len(procs[p].arg)) = procs[p].arg

\* ------------------------------------------------------------------------
\* SpecSingleton: first requests in flight at the same time.  The dependency
\* get_session_manager is a plain function, so the server runs it on a worker
\* thread per request: the test of the global (line 253), the construction and
\* assignment (line 254) and the return (line 255) of different requests
\* interleave.  get_agent is called from the coroutine of the chat handler
\* without an await inside, so one call is one step.

\* requests in flight
Threads == 3

\* what a request does after its dependency is resolved
AfterDependency(op) == IF op = "chat" THEN "get_agent" ELSE "done"

InitSingleton ==
    /\ redis = TRUE
    /\ store = EmptyDict
    /\ \E ops \in [1..Threads -> {"chat", "clear_session"}] :
          procs = [p \in 1..Threads |->
                     [op |-> ops[p], pc |-> "check", manager |-> 0,
                      made_manager |-> FALSE, made_agent |-> FALSE, status |-> 0]]
    /\ now = 0
    /\ nextId = 1
    /\ nextText = 1
    /\ calls = 0
    /\ ret = NoCall
    /\ prev = NoCall
    /\ idle = [k \in Keys |-> NotLive]
    /\ appended = [k \in Keys |-> << >>]
    /\ agent_instance = FALSE
    /\ session_manager = 0
    /\ lastWriter = 0

singletonFrame == <<redis, store, now, nextId, nextText, calls, ret, prev, idle, appended,
                    lastWriter>>

\* line 253: if _session_manager is None
ManagerCheck(p) ==
    /\ procs[p].pc = "check"
    /\ procs' = [procs EXCEPT ![p].pc = IF session_manager = 0 THEN "construct" ELSE "return"]
    /\ UNCHANGED <<session_manager, agent_instance, singletonFrame>>

\* line 254: _session_manager = SessionManager()
ManagerConstruct(p) ==
    /\ procs[p].pc = "construct"
    /\ session_manager' = p
    /\ procs' = [procs EXCEPT ![p].pc = "return", ![p].made_manager = TRUE]
    /\ UNCHANGED <<agent_instance, singletonFrame>>

\* line 255: return _session_manager
ManagerReturn(p) ==
    /\ procs[p].pc = "return"
    /\ procs' = [procs EXCEPT ![p].manager = session_manager,
                              ![p].pc = AfterDependency(procs[p].op)]
    /\ UNCHANGED <<session_manager, agent_instance, singletonFrame>>

\* routes.py line 37: agent = get_agent(); when building the agent raises the
\* request is answered 500 (lines 59-61)
AgentGet(p, construct_ok) ==
    /\ procs[p].pc = "get_agent"
    /\ LET a == get_agent(agent_instance, construct_ok)
       IN /\ agent_instance' = a.built
          /\ procs' = [procs EXCEPT ![p].pc = "done",
                                    ![p].made_agent = ~agent_instance /\ a.built,
                                    ![p].status = IF a.exc THEN 500 ELSE 200]
    /\ UNCHANGED <<session_manager, singletonFrame>>

NextSingleton ==
    \/ \E p \in DOMAIN procs : ManagerCheck(p)
    \/ \E p \in DOMAIN procs : ManagerConstruct(p)
    \/ \E p \in DOMAIN procs : ManagerReturn(p)
    \/ \E p \in DOMAIN procs, construct_ok \in BOOLEAN : AgentGet(p, construct_ok)

SpecSingleton == InitSingleton /\ [][NextSingleton]_vars

\* the requests whose call constructed a SessionManager, a MultiAgent
ManagerMakers == {p \in DOMAIN procs : procs[p].made_manager}
AgentMakers == {p \in DOMAIN procs : procs[p].made_agent}
\* the requests whose dependency has been resolved
Resolved == {p \in DOMAIN procs : procs[p].pc \in {"get_agent", "done"}}

\* C30 as stated: among requests in flight at the same time, at most one
\* SessionManager and at most one MultiAgent are ever constructed, and every
\* request is handed the same SessionManager.
C30_SingletonsBuiltOnce ==
    /\ Cardinality(ManagerMakers) <= 1
    /\ Cardinality(AgentMakers) <= 1
    /\ \A p, q \in Resolved : procs[p].manager = procs[q].manager
====
